---- MODULE Spec2Model ----
(***************************************************************************)
(* Model of the payment-webhook reconciler of the Tapiceros API backend:   *)
(* POST /api/stripe/webhook as it is mounted in the Express app, the five  *)
(* webhook handlers that write the Payment, Invoice and Membership tables, *)
(* and POST /api/stripe/create-invoice, which produces the Invoice rows    *)
(* and the processor invoice IDs the reconciler later looks up; with the   *)
(* client routes that write the same tables or stand at the boundary:      *)
(* send-invoice, the order and profile updates, the notification send and  *)
(* the paginated lists.                                                    *)
(*                                                                         *)
(* Every request is an async Express handler; it is cut at its awaits, so  *)
(* that concurrent requests interleave at their store operations.  A store *)
(* operation (one Prisma call) is atomic.                                  *)
(***************************************************************************)
EXTENDS Integers, Sequences, FiniteSets, TLC

\* ------------------------------------------------------------------ bounds

\* Largest value of the wall clock (new Date()); the clock starts at 1.
MaxTime == 2

\* Most rows the Notification table is let grow to.
MaxNotifications == 2

\* Most rows a list route counts.
MaxTotal == 3

\* ------------------------------------------------------- program constants

\* amount / 100: the processor reports amounts in minor units (cents).
MinorUnitFactor == 100

\* ------------------------------------------------------------ value spaces

NULL == "null"

\* A nullable DateTime column: <<>> is null, <<t>> the instant t.
NullDate == << >>
Date(t) == << t >>

\* The webhook request slots: two deliveries can be in flight at once.
Reqs == {"r1", "r2"}

\* Users that exist in the User table, and the subject of create-invoice.
RegisteredUsers == {"u1", "u2"}
\* metadata.userId of an event: a registered user, an id no User row has,
\* or absent.
EventUserIds == {"u1", "u2", "u9", NULL}

OrderIds == {"o1", "o2"}

PostIds == {"p1"}

\* IDs the payment processor issues for invoices (stripeInvoice.id).
StripeInvoiceIds == {"in_1", "in_2"}
SubscriptionIds == {"sub_1", "sub_2"}
\* Processor subscription statuses: "active", the one the code singles out
\* ("canceled"), and one that is neither.
SubscriptionStatuses == {"active", "canceled", "past_due"}

STRIPE_WEBHOOK_EVENTS ==
    [ PAYMENT_INTENT_SUCCEEDED |-> "payment_intent.succeeded",
      PAYMENT_INTENT_FAILED |-> "payment_intent.payment_failed",
      INVOICE_PAYMENT_SUCCEEDED |-> "invoice.payment_succeeded",
      INVOICE_PAYMENT_FAILED |-> "invoice.payment_failed",
      CUSTOMER_SUBSCRIPTION_CREATED |-> "customer.subscription.created",
      CUSTOMER_SUBSCRIPTION_UPDATED |-> "customer.subscription.updated",
      CUSTOMER_SUBSCRIPTION_DELETED |-> "customer.subscription.deleted",
      CUSTOMER_SUBSCRIPTION_TRIAL_WILL_END |-> "customer.subscription.trial_will_end" ]

\* The cases of the switch in the webhook route.
HandledEventTypes ==
    { STRIPE_WEBHOOK_EVENTS.PAYMENT_INTENT_SUCCEEDED,
      STRIPE_WEBHOOK_EVENTS.INVOICE_PAYMENT_SUCCEEDED,
      STRIPE_WEBHOOK_EVENTS.CUSTOMER_SUBSCRIPTION_CREATED,
      STRIPE_WEBHOOK_EVENTS.CUSTOMER_SUBSCRIPTION_UPDATED,
      STRIPE_WEBHOOK_EVENTS.CUSTOMER_SUBSCRIPTION_DELETED }

\* Event types that reach the default branch: the three that are declared in
\* STRIPE_WEBHOOK_EVENTS but have no case, and one the code never names.
UnhandledEventTypes ==
    { STRIPE_WEBHOOK_EVENTS.PAYMENT_INTENT_FAILED,
      STRIPE_WEBHOOK_EVENTS.INVOICE_PAYMENT_FAILED,
      STRIPE_WEBHOOK_EVENTS.CUSTOMER_SUBSCRIPTION_TRIAL_WILL_END,
      "charge.refunded" }

\* The payment intents the processor reports: id, amount in cents and
\* metadata.orderId.
PaymentIntents ==
    { [id |-> "pi_1", amount |-> 1999, orderId |-> "o1"],
      [id |-> "pi_2", amount |-> 250, orderId |-> NULL] }

\* event.data.object, one record shape for all event types (NULL where the
\* object has no such field).
EventObject(type, id, amount, userId, orderId, status) ==
    [ type |-> type, id |-> id, amount |-> amount, userId |-> userId,
      orderId |-> orderId, status |-> status ]

PaymentSucceededEvents ==
    { EventObject(STRIPE_WEBHOOK_EVENTS.PAYMENT_INTENT_SUCCEEDED, pi.id, pi.amount,
                  u, pi.orderId, NULL) : pi \in PaymentIntents, u \in EventUserIds }

InvoicePaidEvents ==
    { EventObject(STRIPE_WEBHOOK_EVENTS.INVOICE_PAYMENT_SUCCEEDED, i, 0, NULL, NULL, NULL)
        : i \in StripeInvoiceIds }

SubscriptionCreatedEvents ==
    { EventObject(STRIPE_WEBHOOK_EVENTS.CUSTOMER_SUBSCRIPTION_CREATED, s, 0, u, NULL,
                  "active") : s \in SubscriptionIds, u \in {"u1", NULL} }

SubscriptionUpdatedEvents ==
    { EventObject(STRIPE_WEBHOOK_EVENTS.CUSTOMER_SUBSCRIPTION_UPDATED, s, 0, NULL, NULL, st)
        : s \in SubscriptionIds, st \in SubscriptionStatuses }

SubscriptionDeletedEvents ==
    { EventObject(STRIPE_WEBHOOK_EVENTS.CUSTOMER_SUBSCRIPTION_DELETED, s, 0, NULL, NULL,
                  "canceled") : s \in SubscriptionIds }

UnhandledEvents ==
    { EventObject(t, "evt_obj", 0, NULL, NULL, NULL) : t \in UnhandledEventTypes }

HandledEvents ==
    PaymentSucceededEvents \cup InvoicePaidEvents \cup SubscriptionCreatedEvents
        \cup SubscriptionUpdatedEvents \cup SubscriptionDeletedEvents

NoEvent == EventObject(NULL, NULL, 0, NULL, NULL, NULL)

\* What the sender did to a delivery: a valid signature over the body it
\* sends, a wrong signature header, or a valid header over a body that was
\* changed afterwards.
SignatureCases == {"valid", "bad_signature", "tampered_body"}

\* One inbound POST /api/stripe/webhook: whether it carries a bearer token
\* the identity verifier accepts, its signature case and its event.
DeliveriesOf(events) == [bearer : {TRUE}, sig : {"valid"}, event : events]

\* Deliveries that are stopped before the switch: no accepted bearer token,
\* or a signature that does not verify.  What the event is makes no
\* difference to them, so they carry one event of each handled type.
StoppedDeliveryEvents ==
    { e \in HandledEvents : e.userId \in {"u1", NULL} /\ e.id \in {"pi_1", "in_1", "sub_1"}
                            /\ e.status \in {NULL, "active", "canceled"} }

StoppedDeliveries ==
    [bearer : {TRUE}, sig : SignatureCases \ {"valid"}, event : StoppedDeliveryEvents]
        \cup [bearer : {FALSE}, sig : SignatureCases, event : StoppedDeliveryEvents]

NoDelivery == [bearer |-> FALSE, sig |-> NULL, event |-> NoEvent]

\* ------------------------------------------------------------------- state

VARIABLES
    users,            \* User table: id -> [stripeCustomerId, fcmToken, role, name,
                      \* isActive]
    orders,           \* Order table: id -> [userId, status, completedAt]
    payments,         \* Payment table, in insertion order; a row's id is its index
    invoices,         \* Invoice table, in insertion order
    memberships,      \* Membership table, in insertion order
    stripeInvoices,   \* processor side: the invoice IDs stripe.invoices.create issued
    invoiceHandles,   \* the {invoiceId, stripeInvoiceId} pairs create-invoice returned
    endpointSecret,   \* process.env.STRIPE_WEBHOOK_SECRET
    firebaseAdmin,    \* the Firebase app, NULL when it was not initialised
    now,              \* the wall clock
    hook,             \* webhook request slot -> that request: where it is and,
                      \* once answered, its response and what it wrote
    cli,              \* the create-invoice request: where it is and its response
    notifications,    \* Notification table, in insertion order
    api,              \* client slot -> the client API request in it (order and
                      \* profile updates, send-invoice, notification sends, lists)
    posts,            \* Post table: id -> [likes, isPublished]
    postLikes         \* PostLike table, in insertion order

stores == << payments, invoices, memberships >>
environment == << users, orders, endpointSecret, firebaseAdmin >>
\* The tables of the social feed.
social == << posts, postLikes >>
\* What the webhook route and create-invoice never touch.
rest == << notifications, api >>
vars == << users, orders, payments, invoices, memberships, stripeInvoices,
           invoiceHandles, endpointSecret, firebaseAdmin, now, hook, cli,
           notifications, api, posts, postLikes >>

\* A webhook request.  pc: "idle" (no request), "handler" (a handler awaits
\* its store operation), "notify" (handlePaymentSucceeded is in its
\* notification block), "done" (answered).  status and body are the response;
\* error tells why a handler threw; written are the rows the request created
\* or changed, at is when; matched are the ids of the rows the filter of its
\* updateMany selected; notification is how the notification block ended.
WebhookRequest(pc, d, status, body, error, matched, written, at, notification) ==
    [ pc |-> pc, delivery |-> d, status |-> status, body |-> body, error |-> error,
      matched |-> matched, written |-> written, at |-> at,
      notification |-> notification ]

IdleSlot == WebhookRequest("idle", NoDelivery, 0, NULL, "none", {}, {}, 0, "none")

NoHandle == [invoiceId |-> 0, stripeInvoiceId |-> NULL]

ClientRequest(pc, user, order, stripeInvoice, status, message, data) ==
    [ pc |-> pc, user |-> user, order |-> order, stripeInvoice |-> stripeInvoice,
      status |-> status, message |-> message, data |-> data ]

IdleClient == ClientRequest("idle", NULL, NULL, NULL, 0, NULL, NoHandle)

\* The client slots: two client API requests can be in flight at once.
Clients == {"c1", "c2"}

NoOrder == [userId |-> NULL, status |-> NULL, completedAt |-> NullDate]

\* A client API request.  op is the route; pc: "idle", "lookup" (the route
\* has read what it checks and goes on to its write), "done" (answered).
\* user is the subject of the bearer token, target the id in the path,
\* input what the body asks for; existing is the row the route read before
\* its write, before and after are the row right before and after the
\* write, at is when it wrote; storeOps counts the store operations the
\* request has issued, reads included; status and message are the response
\* ("errors" is the list of validation errors).
ApiRequest(pc, op, user, target, input, existing, before, after, at, storeOps, status, message) ==
    [ pc |-> pc, op |-> op, user |-> user, target |-> target, input |-> input,
      existing |-> existing, before |-> before, after |-> after, at |-> at,
      storeOps |-> storeOps, status |-> status, message |-> message ]

IdleApi == ApiRequest("idle", NULL, NULL, NULL, NULL, NoOrder, NoOrder, NoOrder, 0, 0, 0, NULL)

\* The store after registration (register keeps stripeCustomerId null when
\* the processor call failed) and after order creation; nothing has been
\* paid, invoiced or subscribed yet.  The two environment settings are fixed
\* at process start.
Init ==
    /\ users = [u \in RegisteredUsers |->
                  IF u = "u1" THEN [stripeCustomerId |-> "cus_1", fcmToken |-> "tok_1",
                                    role |-> "USER", name |-> "n0", isActive |-> TRUE]
                              ELSE [stripeCustomerId |-> NULL, fcmToken |-> NULL,
                                    role |-> "ADMIN", name |-> "n0", isActive |-> TRUE]]
    /\ orders = [o \in OrderIds |->
                   [userId |-> IF o = "o1" THEN "u1" ELSE "u2",
                    status |-> "PENDING", completedAt |-> NullDate]]
    /\ payments = << >>
    /\ invoices = << >>
    /\ memberships = << >>
    /\ stripeInvoices = {}
    /\ invoiceHandles = {}
    /\ endpointSecret \in {NULL, "whsec"}
    /\ firebaseAdmin \in {NULL, "app"}
    /\ now = 1
    /\ hook = [r \in Reqs |-> IdleSlot]
    /\ cli = IdleClient
    /\ notifications = << >>
    /\ api = [c \in Clients |-> IdleApi]
    /\ posts = [p \in PostIds |-> [likes |-> 0, isPublished |-> TRUE]]
    /\ postLikes = << >>

\* ------------------------------------------------------------ the store

\* The rows of a table that an operation created or changed, with their new
\* contents: the difference between the table before and after.
RowsWritten(table, old, new) ==
    { [table |-> table, id |-> i, row |-> new[i]] :
        i \in { j \in 1..Len(new) : j > Len(old) \/ old[j] # new[j] } }

\* Variant: the Payment table has no unique index on stripePaymentId.
PaymentReferenceNotIndexed(tbl, data) == FALSE

\* Unique index on Payment.stripePaymentId (P2002 on a second insert).
PaymentReferenceTaken(tbl, data) ==
    \E i \in 1..Len(tbl) : tbl[i].stripePaymentId = data.stripePaymentId

\* Variant: Payment.userId is optional; a missing owner is stored as null.
PaymentOwnerOptional(data) ==
    \/ data.userId # NULL /\ data.userId \notin DOMAIN users
    \/ data.orderId # NULL /\ data.orderId \notin DOMAIN orders

\* Payment.userId is a required reference to User, Payment.orderId an
\* optional reference to Order (P2003, or a validation error when absent).
PaymentReferencesMissing(data) ==
    \/ data.userId \notin DOMAIN users
    \/ data.orderId # NULL /\ data.orderId \notin DOMAIN orders

\* Variant: the Membership table has no unique index on stripeSubscriptionId.
MembershipReferenceNotIndexed(tbl, data) == FALSE

\* Unique index on Membership.stripeSubscriptionId.
MembershipReferenceTaken(tbl, data) ==
    \E i \in 1..Len(tbl) : tbl[i].stripeSubscriptionId = data.stripeSubscriptionId

\* Membership.userId is a required reference to User.
MembershipReferencesMissing(data) == data.userId \notin DOMAIN users

\* prisma.<model>.updateMany({where, data}): every row that matches is
\* rewritten, the others are kept; no match is not an error.
UpdateMany(tbl, Matches(_), Change(_)) ==
    [i \in 1..Len(tbl) |-> IF Matches(tbl[i]) THEN Change(tbl[i]) ELSE tbl[i]]

\* ------------------------------------------------- the webhook handlers

\* Variant: the amount is stored as the processor reports it, in cents.
AmountLeftInCents(amount) == [units |-> amount, hundredths |-> 0]

\* amount / 100 on a whole number of cents: the major-unit amount as a
\* decimal with two fractional digits.
ConvertFromCents(amount) ==
    [units |-> amount \div MinorUnitFactor, hundredths |-> amount % MinorUnitFactor]

\* The data handlePaymentSucceeded hands to prisma.payment.create.
PaymentData(paymentIntent) ==
    [ amount |-> ConvertFromCents(paymentIntent.amount),
      status |-> "COMPLETED",
      stripePaymentId |-> paymentIntent.id,
      userId |-> paymentIntent.userId,
      orderId |-> paymentIntent.orderId ]

\* The data handleSubscriptionCreated hands to prisma.membership.create;
\* endDate takes the column default.
MembershipData(subscription) ==
    [ type |-> "PREMIUM",
      status |-> "ACTIVE",
      stripeSubscriptionId |-> subscription.id,
      userId |-> subscription.userId,
      endDate |-> NullDate ]

\* Variant: the updateMany has no where clause.
handleInvoicePaymentSucceededEverywhere(tbl, invoice) ==
    [i \in 1..Len(tbl) |-> [tbl[i] EXCEPT !.status = "PAID"]]

\* Variant: the updateMany has no where clause.
handleSubscriptionDeletedEverywhere(tbl, subscription, t) ==
    [i \in 1..Len(tbl) |-> [tbl[i] EXCEPT !.status = "CANCELLED", !.endDate = Date(t)]]

\* where: { stripeInvoiceId: invoice.id }
InvoiceOfEvent(row, invoice) == row.stripeInvoiceId = invoice.id

\* where: { stripeSubscriptionId: id }
MembershipOfEvent(row, subscription) == row.stripeSubscriptionId = subscription.id

handleInvoicePaymentSucceeded(tbl, invoice) ==
    LET Matches(row) == InvoiceOfEvent(row, invoice)
        Change(row) == [row EXCEPT !.status = "PAID"]
    IN  UpdateMany(tbl, Matches, Change)

\* Variant: the updateMany has no where clause.
handleSubscriptionUpdatedEverywhere(tbl, subscription, t) ==
    [i \in 1..Len(tbl) |->
        [tbl[i] EXCEPT !.status = IF subscription.status = "active"
                                    THEN "ACTIVE" ELSE "CANCELLED",
                       !.endDate = IF subscription.status = "canceled"
                                     THEN Date(t) ELSE NullDate]]

handleSubscriptionUpdated(tbl, subscription, t) ==
    LET Matches(row) == MembershipOfEvent(row, subscription)
        Change(row) ==
            [row EXCEPT !.status = IF subscription.status = "active"
                                     THEN "ACTIVE" ELSE "CANCELLED",
                        !.endDate = IF subscription.status = "canceled"
                                      THEN Date(t) ELSE NullDate]
    IN  UpdateMany(tbl, Matches, Change)

\* Variant: the data of the updateMany has no endDate.
handleSubscriptionDeletedKeepsEndDate(tbl, subscription, t) ==
    [i \in 1..Len(tbl) |->
        IF tbl[i].stripeSubscriptionId = subscription.id
          THEN [tbl[i] EXCEPT !.status = "CANCELLED"] ELSE tbl[i]]

handleSubscriptionDeleted(tbl, subscription, t) ==
    LET Matches(row) == MembershipOfEvent(row, subscription)
        Change(row) == [row EXCEPT !.status = "CANCELLED", !.endDate = Date(t)]
    IN  UpdateMany(tbl, Matches, Change)

\* The ids of the rows the handler's updateMany selects (the rows its count
\* is about); the two creates select none.
RowsMatched(event) ==
    CASE event.type = STRIPE_WEBHOOK_EVENTS.INVOICE_PAYMENT_SUCCEEDED ->
            { i \in 1..Len(invoices) : InvoiceOfEvent(invoices[i], event) }
      [] event.type \in { STRIPE_WEBHOOK_EVENTS.CUSTOMER_SUBSCRIPTION_UPDATED,
                          STRIPE_WEBHOOK_EVENTS.CUSTOMER_SUBSCRIPTION_DELETED } ->
            { i \in 1..Len(memberships) : MembershipOfEvent(memberships[i], event) }
      [] OTHER -> {}

\* The store refuses the write of a handler: only the two creates can be
\* refused, the updateMany calls accept any filter.
StoreRejects(event) ==
    CASE event.type = STRIPE_WEBHOOK_EVENTS.PAYMENT_INTENT_SUCCEEDED ->
            \/ PaymentReferenceTaken(payments, PaymentData(event))
            \/ PaymentReferencesMissing(PaymentData(event))
      [] event.type = STRIPE_WEBHOOK_EVENTS.CUSTOMER_SUBSCRIPTION_CREATED ->
            \/ MembershipReferenceTaken(memberships, MembershipData(event))
            \/ MembershipReferencesMissing(MembershipData(event))
      [] OTHER -> FALSE

\* The tables after the handler the switch selects has written.
PaymentsAfter(event) ==
    IF event.type = STRIPE_WEBHOOK_EVENTS.PAYMENT_INTENT_SUCCEEDED
      THEN Append(payments, PaymentData(event))
      ELSE payments

\* Variant: a succeeded payment also settles the invoices of its order.
InvoicesPaidWithPayment(event) ==
    CASE event.type = STRIPE_WEBHOOK_EVENTS.INVOICE_PAYMENT_SUCCEEDED ->
            handleInvoicePaymentSucceeded(invoices, event)
      [] event.type = STRIPE_WEBHOOK_EVENTS.PAYMENT_INTENT_SUCCEEDED ->
            [i \in 1..Len(invoices) |->
                IF invoices[i].orderId = event.orderId
                  THEN [invoices[i] EXCEPT !.status = "PAID"] ELSE invoices[i]]
      [] OTHER -> invoices

InvoicesAfter(event) ==
    IF event.type = STRIPE_WEBHOOK_EVENTS.INVOICE_PAYMENT_SUCCEEDED
      THEN handleInvoicePaymentSucceeded(invoices, event)
      ELSE invoices

MembershipsAfter(event, t) ==
    CASE event.type = STRIPE_WEBHOOK_EVENTS.CUSTOMER_SUBSCRIPTION_CREATED ->
            Append(memberships, MembershipData(event))
      [] event.type = STRIPE_WEBHOOK_EVENTS.CUSTOMER_SUBSCRIPTION_UPDATED ->
            handleSubscriptionUpdated(memberships, event, t)
      [] event.type = STRIPE_WEBHOOK_EVENTS.CUSTOMER_SUBSCRIPTION_DELETED ->
            handleSubscriptionDeleted(memberships, event, t)
      [] OTHER -> memberships


\* ------------------------------------------- POST /api/stripe/webhook

\* jwtCheck inside authMiddleware: the request goes on only with a bearer
\* token the identity provider's keys verify.
authMiddleware(d) == d.bearer

\* app.use('/api/stripe', authMiddleware, stripeRoutes): what a request to
\* any route of the stripe router, the webhook included, must pass first.
StripeRouterAdmits(d) == authMiddleware(d)

\* Variant: the signature header is checked for being well formed and
\* current, not against the body received.
constructEventIgnoresBody(d) == d.sig # "bad_signature"

\* stripe.webhooks.constructEvent(req.body, sig, endpointSecret) returns the
\* event when the signature header is the signature of the body received,
\* and throws otherwise.
constructEventSucceeds(d) == d.sig = "valid"

\* A response sent before any handler ran.
Answered(d, status, body) ==
    WebhookRequest("done", d, status, body, "none", {}, {}, 0, "none")

\* res.json({ received: true }) after the switch.
Acknowledgment(d, matched, written, at, notification) ==
    WebhookRequest("done", d, 200, "received", "none", matched, written, at, notification)

\* Variant: the default branch refuses the event.
UnhandledTypeRefused(d, at) ==
    WebhookRequest("done", d, 400, "Unhandled event type", "none", {}, {}, 0, "none")

\* The default branch of the switch logs the type; the route then
\* acknowledges like after any case.
UnhandledTypeResponse(d, at) == Acknowledgment(d, {}, {}, at, "none")

\* Variant: the catch logs the error and the route acknowledges all the same.
FailureAcknowledged(d, error) ==
    WebhookRequest("done", d, 200, "received", error, {}, {}, 0, "none")

\* The catch around the switch: res.status(500) 'Error processing webhook'.
ProcessingFailure(d, error) ==
    WebhookRequest("done", d, 500, "Error processing webhook", error, {}, {}, 0, "none")

\* The request is answered 401 by authMiddleware and never reaches the route.
WebhookUnauthorized(r, d) ==
    /\ hook[r].pc = "idle"
    /\ ~StripeRouterAdmits(d)
    /\ hook' = [hook EXCEPT ![r] = Answered(d, 401, "Invalid or expired token")]
    /\ UNCHANGED << social, rest, environment, stores, stripeInvoices, invoiceHandles, now, cli >>

WebhookSecretMissing(r, d) ==
    /\ hook[r].pc = "idle"
    /\ StripeRouterAdmits(d)
    /\ endpointSecret = NULL
    /\ hook' = [hook EXCEPT ![r] = Answered(d, 500, "Webhook secret not configured")]
    /\ UNCHANGED << social, rest, environment, stores, stripeInvoices, invoiceHandles, now, cli >>

\* constructEvent throws: 400 'Invalid signature', before the switch.
WebhookInvalidSignature(r, d) ==
    /\ hook[r].pc = "idle"
    /\ StripeRouterAdmits(d)
    /\ endpointSecret # NULL
    /\ ~constructEventSucceeds(d)
    /\ hook' = [hook EXCEPT ![r] = Answered(d, 400, "Invalid signature")]
    /\ UNCHANGED << social, rest, environment, stores, stripeInvoices, invoiceHandles, now, cli >>

\* The default branch of the switch: logged, then acknowledged.
WebhookUnhandledType(r, d) ==
    /\ hook[r].pc = "idle"
    /\ StripeRouterAdmits(d)
    /\ endpointSecret # NULL
    /\ constructEventSucceeds(d)
    /\ d.event.type \notin HandledEventTypes
    /\ hook' = [hook EXCEPT ![r] = UnhandledTypeResponse(d, now)]
    /\ UNCHANGED << social, rest, environment, stores, stripeInvoices, invoiceHandles, now, cli >>

\* A case of the switch is taken: the handler is called and awaits its
\* store operation.
WebhookDispatch(r, d) ==
    /\ hook[r].pc = "idle"
    /\ StripeRouterAdmits(d)
    /\ endpointSecret # NULL
    /\ constructEventSucceeds(d)
    /\ d.event.type \in HandledEventTypes
    /\ hook' = [hook EXCEPT ![r] = [IdleSlot EXCEPT !.pc = "handler", !.delivery = d]]
    /\ UNCHANGED << social, rest, environment, stores, stripeInvoices, invoiceHandles, now, cli >>

\* The handler's store operation succeeds.  handlePaymentSucceeded goes on
\* to its notification block; the other handlers return and the route
\* acknowledges.
WebhookHandlerWrites(r) ==
    LET d == hook[r].delivery
        e == d.event
        written == RowsWritten("Payment", payments, PaymentsAfter(e))
                     \cup RowsWritten("Invoice", invoices, InvoicesAfter(e))
                     \cup RowsWritten("Membership", memberships, MembershipsAfter(e, now))
    IN  /\ hook[r].pc = "handler"
        /\ ~StoreRejects(e)
        /\ payments' = PaymentsAfter(e)
        /\ invoices' = InvoicesAfter(e)
        /\ memberships' = MembershipsAfter(e, now)
        /\ hook' = [hook EXCEPT ![r] =
                      IF e.type = STRIPE_WEBHOOK_EVENTS.PAYMENT_INTENT_SUCCEEDED
                        THEN [IdleSlot EXCEPT !.pc = "notify", !.delivery = d,
                                              !.matched = RowsMatched(e),
                                              !.written = written, !.at = now]
                        ELSE Acknowledgment(d, RowsMatched(e), written, now, "none")]
        /\ UNCHANGED << social, rest, environment, stripeInvoices, invoiceHandles, now, cli >>

\* The store refuses the create (a unique index or a reference): the handler
\* throws and the catch around the switch answers.
WebhookHandlerRejected(r) ==
    /\ hook[r].pc = "handler"
    /\ StoreRejects(hook[r].delivery.event)
    /\ hook' = [hook EXCEPT ![r] = ProcessingFailure(hook[r].delivery, "constraint")]
    /\ UNCHANGED << social, rest, environment, stores, stripeInvoices, invoiceHandles, now, cli >>

\* The store operation fails for a reason of its own (the database is
\* unreachable): nothing is written, the handler throws.
WebhookStoreUnavailable(r) ==
    /\ hook[r].pc = "handler"
    /\ hook' = [hook EXCEPT ![r] = ProcessingFailure(hook[r].delivery, "unavailable")]
    /\ UNCHANGED << social, rest, environment, stores, stripeInvoices, invoiceHandles, now, cli >>

\* What the try block after the create can come to: the user lookup throws,
\* there is no device token, sendNotificationToDevice returns null because
\* Firebase is not initialised, or it sends, or it throws.
NotificationOutcomes(userId) ==
    {"lookup_failed"} \cup
        ( IF userId \notin DOMAIN users \/ users[userId].fcmToken = NULL
            THEN {"no_token"}
            ELSE IF firebaseAdmin = NULL THEN {"unconfigured"}
                                         ELSE {"sent", "send_failed"} )

\* Variant: the notification block has no catch of its own; what the user
\* lookup or the send throws reaches the catch of the route.
NotificationFailurePropagates(h, outcome) ==
    IF outcome \in {"lookup_failed", "send_failed"}
      THEN [ProcessingFailure(h.delivery, "notification") EXCEPT !.notification = outcome]
      ELSE Acknowledgment(h.delivery, h.matched, h.written, h.at, outcome)

\* The response to a request h whose notification block ended with outcome:
\* the catch of the block logs whatever was thrown, the handler returns
\* normally and the route acknowledges.
NotificationResponse(h, outcome) ==
    Acknowledgment(h.delivery, h.matched, h.written, h.at, outcome)

\* The notification block of handlePaymentSucceeded, then the response.
WebhookNotify(r, outcome) ==
    /\ hook[r].pc = "notify"
    /\ outcome \in NotificationOutcomes(hook[r].delivery.event.userId)
    /\ hook' = [hook EXCEPT ![r] = NotificationResponse(hook[r], outcome)]
    /\ UNCHANGED << social, rest, environment, stores, stripeInvoices, invoiceHandles, now, cli >>

\* The response has gone out; the slot takes the next delivery.
WebhookFinished(r) ==
    /\ hook[r].pc = "done"
    /\ hook' = [hook EXCEPT ![r] = IdleSlot]
    /\ UNCHANGED << social, rest, environment, stores, stripeInvoices, invoiceHandles, now, cli >>

\* Time passes.
Tick ==
    /\ now < MaxTime
    /\ now' = now + 1
    /\ UNCHANGED << social, rest, environment, stores, stripeInvoices, invoiceHandles, hook, cli >>

\* ------------------------------------- POST /api/stripe/create-invoice

\* A create-invoice request: whether its bearer token verifies, the subject
\* of the token, the order it names and whether the body passes the
\* express-validator rules.
InvoiceRequests ==
    [bearer : BOOLEAN, user : RegisteredUsers, order : OrderIds, valid : BOOLEAN]

ClientAnswered(q, status, message, data) ==
    ClientRequest("done", q.user, q.order, NULL, status, message, data)

\* Variant: the filter of the lookup has no userId.
OrderOfAnyUser(q) == q.order \in DOMAIN orders

\* prisma.order.findFirst({ where: { id: orderId, userId } })
OrderOfUser(q) == q.order \in DOMAIN orders /\ orders[q.order].userId = q.user

\* The answers create-invoice gives before it calls the processor: 0 when
\* it gives none and goes on.
CreateInvoiceRefusal(q) ==
    IF ~authMiddleware(q) THEN 401
    ELSE IF ~q.valid THEN 400
    ELSE IF ~OrderOfUser(q) THEN 404
    ELSE IF users[q.user].stripeCustomerId = NULL THEN 400
    ELSE 0

CreateInvoiceRefused(q) ==
    /\ cli.pc = "idle"
    /\ CreateInvoiceRefusal(q) # 0
    /\ cli' = ClientAnswered(q, CreateInvoiceRefusal(q), "refused", NoHandle)
    /\ UNCHANGED << social, rest, environment, stores, stripeInvoices, invoiceHandles, now, hook >>

\* createInvoice throws (the processor call fails): the catch answers 500.
CreateInvoiceProcessorFails(q) ==
    /\ cli.pc = "idle"
    /\ CreateInvoiceRefusal(q) = 0
    /\ cli' = ClientAnswered(q, 500, "Error creating invoice", NoHandle)
    /\ UNCHANGED << social, rest, environment, stores, stripeInvoices, invoiceHandles, now, hook >>

\* createInvoice returns the processor's invoice, with an ID of its own.
CreateInvoiceAtProcessor(q) ==
    /\ cli.pc = "idle"
    /\ CreateInvoiceRefusal(q) = 0
    /\ StripeInvoiceIds \ stripeInvoices # {}
    /\ LET free == StripeInvoiceIds \ stripeInvoices
           id == IF "in_1" \in free THEN "in_1" ELSE CHOOSE i \in free : TRUE
       IN  /\ stripeInvoices' = stripeInvoices \cup {id}
           /\ cli' = ClientRequest("create", q.user, q.order, id, 0, NULL, NoHandle)
    /\ UNCHANGED << social, rest, environment, stores, invoiceHandles, now, hook >>

\* The data create-invoice hands to prisma.invoice.create.  The columns it
\* fills are invoiceNumber, amount, currency, status and orderId: the
\* processor's invoice ID is not among them, so stripeInvoiceId stays null.
InvoiceData(orderId) ==
    [status |-> "DRAFT", orderId |-> orderId, stripeInvoiceId |-> NULL]

\* prisma.invoice.create succeeds and the route returns both IDs.
CreateInvoiceStored ==
    LET handle == [invoiceId |-> Len(invoices) + 1, stripeInvoiceId |-> cli.stripeInvoice]
    IN  /\ cli.pc = "create"
        /\ invoices' = Append(invoices, InvoiceData(cli.order))
        /\ invoiceHandles' = invoiceHandles \cup {handle}
        /\ cli' = [cli EXCEPT !.pc = "done", !.status = 200,
                              !.message = "Invoice created successfully", !.data = handle]
        /\ UNCHANGED << social, rest, environment, payments, memberships, stripeInvoices, now, hook >>

\* prisma.invoice.create throws: 500, the processor's invoice stays.
CreateInvoiceStoreFails ==
    /\ cli.pc = "create"
    /\ cli' = [cli EXCEPT !.pc = "done", !.status = 500,
                          !.message = "Error creating invoice"]
    /\ UNCHANGED << social, rest, environment, stores, stripeInvoices, invoiceHandles, now, hook >>

ClientFinished ==
    /\ cli.pc = "done"
    /\ cli' = IdleClient
    /\ UNCHANGED << social, rest, environment, stores, stripeInvoices, invoiceHandles, now, hook >>

\* ------------------------------------------------- PUT /api/orders/:id

OrderStatuses == {"PENDING", "IN_PROGRESS", "COMPLETED", "CANCELLED"}

\* An order update that passed authMiddleware: the subject of the token, the
\* order in the path, the status in the body (NULL when the body has none)
\* and whether the body passes the express-validator rules.
OrderUpdateRequests ==
    [user : RegisteredUsers, order : {"o1"}, status : {NULL, "IN_PROGRESS", "COMPLETED"},
     valid : BOOLEAN]

\* Variant: completedAt is stamped whenever the body says COMPLETED.
OrderUpdateAlwaysStamps(row, existingOrder, status, t) ==
    [row EXCEPT !.status = IF status # NULL THEN status ELSE @,
                !.completedAt = IF status = "COMPLETED" THEN Date(t) ELSE @]

\* prisma.order.update with updateData: status when the body has one,
\* completedAt = new Date() when the body says COMPLETED and the order the
\* route read before (existingOrder) was not COMPLETED.
OrderUpdateData(row, existingOrder, status, t) ==
    [row EXCEPT !.status = IF status # NULL THEN status ELSE @,
                !.completedAt = IF status = "COMPLETED" /\ existingOrder.status # "COMPLETED"
                                  THEN Date(t) ELSE @]

\* validationResult(req) is not empty: 400, before any store operation.
OrderUpdateInvalid(c, q) ==
    /\ api[c].pc = "idle"
    /\ ~q.valid
    /\ api' = [api EXCEPT ![c] =
                 ApiRequest("done", "order.update", q.user, q.order, q.status,
                            NoOrder, NoOrder, NoOrder, 0, 0, 400, "errors")]
    /\ UNCHANGED << social, environment, stores, stripeInvoices, invoiceHandles, now, hook, cli,
                    notifications >>

\* prisma.order.findFirst({ where: { id, userId } }): 404 when the user has
\* no such order, otherwise the route keeps the row as existingOrder.
OrderUpdateLookup(c, q) ==
    /\ api[c].pc = "idle"
    /\ q.valid
    /\ api' = [api EXCEPT ![c] =
                 IF OrderOfUser(q)
                   THEN ApiRequest("lookup", "order.update", q.user, q.order, q.status,
                                   orders[q.order], NoOrder, NoOrder, 0, 1, 0, NULL)
                   ELSE ApiRequest("done", "order.update", q.user, q.order, q.status,
                                   NoOrder, NoOrder, NoOrder, 0, 1, 404, "Order not found")]
    /\ UNCHANGED << social, environment, stores, stripeInvoices, invoiceHandles, now, hook, cli,
                    notifications >>

\* prisma.order.update, then the notification block (a user lookup when the
\* status changed; what it throws is logged) and the response.
OrderUpdateWrite(c) ==
    LET a == api[c]
        row == OrderUpdateData(orders[a.target], a.existing, a.input, now)
    IN  /\ a.pc = "lookup" /\ a.op = "order.update"
        /\ a.target \in DOMAIN orders
        /\ orders' = [orders EXCEPT ![a.target] = row]
        /\ api' = [api EXCEPT ![c] =
                     [a EXCEPT !.pc = "done", !.before = orders[a.target], !.after = row,
                               !.at = now, !.status = 200,
                               !.storeOps = IF a.input # NULL /\ a.input # a.existing.status
                                              THEN 3 ELSE 2]]
        /\ UNCHANGED << social, users, endpointSecret, firebaseAdmin, stores, stripeInvoices,
                        invoiceHandles, now, hook, cli, notifications >>

\* prisma.order.update finds no row with that id (it was deleted after the
\* lookup): P2025, which errorHandler answers with 404 'Record not found'.
OrderUpdateGone(c) ==
    /\ api[c].pc = "lookup" /\ api[c].op = "order.update"
    /\ api[c].target \notin DOMAIN orders
    /\ api' = [api EXCEPT ![c] = [@ EXCEPT !.pc = "done", !.status = 404, !.storeOps = 2,
                                           !.message = "Record not found"]]
    /\ UNCHANGED << social, environment, stores, stripeInvoices, invoiceHandles, now, hook, cli,
                    notifications >>

\* ------------------------------------ GET and DELETE /api/orders/:id

\* A get or delete of an order that passed authMiddleware: the subject of
\* the token and the order in the path.
OrderRequests == [user : RegisteredUsers, order : OrderIds]

\* GET /:id: prisma.order.findFirst({ where: { id, userId } }), 404 when the
\* user has no such order, otherwise the order.
OrderGet(c, q) ==
    /\ api[c].pc = "idle"
    /\ api' = [api EXCEPT ![c] =
                 IF OrderOfUser(q)
                   THEN ApiRequest("done", "order.get", q.user, q.order, NULL,
                                   orders[q.order], NoOrder, NoOrder, 0, 1, 200, "data")
                   ELSE ApiRequest("done", "order.get", q.user, q.order, NULL,
                                   NoOrder, NoOrder, NoOrder, 0, 1, 404, "Order not found")]
    /\ UNCHANGED << social, environment, stores, stripeInvoices, invoiceHandles, now, hook, cli,
                    notifications >>

\* The answers DELETE /:id gives after its lookup, on the row it read: 404
\* when the user has no such order, 400 when that order is IN_PROGRESS, 0
\* when it gives none and goes on to the delete.
OrderDeleteRefusal(q) ==
    IF ~OrderOfUser(q) THEN 404
    ELSE IF orders[q.order].status = "IN_PROGRESS" THEN 400
    ELSE 0

\* DELETE /:id up to its await of prisma.order.delete.
OrderDeleteLookup(c, q) ==
    /\ api[c].pc = "idle"
    /\ api' = [api EXCEPT ![c] =
                 CASE OrderDeleteRefusal(q) = 404 ->
                        ApiRequest("done", "order.delete", q.user, q.order, NULL,
                                   NoOrder, NoOrder, NoOrder, 0, 1, 404, "Order not found")
                   [] OrderDeleteRefusal(q) = 400 ->
                        ApiRequest("done", "order.delete", q.user, q.order, NULL,
                                   orders[q.order], NoOrder, NoOrder, 0, 1, 400,
                                   "Cannot delete order in progress")
                   [] OTHER ->
                        ApiRequest("lookup", "order.delete", q.user, q.order, NULL,
                                   orders[q.order], NoOrder, NoOrder, 0, 1, 0, NULL)]
    /\ UNCHANGED << social, environment, stores, stripeInvoices, invoiceHandles, now, hook, cli,
                    notifications >>

\* prisma.order.delete({ where: { id: orderId } }): the row with that id is
\* removed, whatever it holds by now; then 200.
OrderDeleteWrite(c) ==
    LET a == api[c]
    IN  /\ a.pc = "lookup" /\ a.op = "order.delete"
        /\ a.target \in DOMAIN orders
        /\ orders' = [o \in DOMAIN orders \ {a.target} |-> orders[o]]
        /\ api' = [api EXCEPT ![c] = [a EXCEPT !.pc = "done", !.before = orders[a.target],
                                               !.at = now, !.storeOps = 2, !.status = 200,
                                               !.message = "Order deleted successfully"]]
        /\ UNCHANGED << social, users, endpointSecret, firebaseAdmin, stores, stripeInvoices,
                        invoiceHandles, now, hook, cli, notifications >>

\* prisma.order.delete finds no row with that id (another delete removed it
\* after the lookup): P2025, answered 404 by errorHandler.
OrderDeleteGone(c) ==
    /\ api[c].pc = "lookup" /\ api[c].op = "order.delete"
    /\ api[c].target \notin DOMAIN orders
    /\ api' = [api EXCEPT ![c] = [@ EXCEPT !.pc = "done", !.status = 404, !.storeOps = 2,
                                           !.message = "Record not found"]]
    /\ UNCHANGED << social, environment, stores, stripeInvoices, invoiceHandles, now, hook, cli,
                    notifications >>

\* The response has gone out; the slot takes the next request.
ApiFinished(c) ==
    /\ api[c].pc = "done"
    /\ api' = [api EXCEPT ![c] = IdleApi]
    /\ UNCHANGED << social, environment, stores, stripeInvoices, invoiceHandles, now, hook, cli,
                    notifications >>

\* ------------------------------- POST /api/stripe/send-invoice/:invoiceId

\* A send-invoice request that passed authMiddleware: the subject of the
\* token and the Invoice id in the path.
SendInvoiceRequests == [user : RegisteredUsers, invoice : {1, 2}]

\* prisma.invoice.findFirst({ where: { id, order: { userId } } })
InvoiceOfUser(q) ==
    /\ q.invoice \in 1..Len(invoices)
    /\ invoices[q.invoice].orderId \in DOMAIN orders
    /\ orders[invoices[q.invoice].orderId].userId = q.user

\* Variant: sending an invoice settles it.
SendInvoiceMarksPaid(row) == [row EXCEPT !.status = "PAID"]

\* prisma.invoice.update({ where: { id }, data: { status: 'SENT' } }),
\* whatever the status of the row is.
SendInvoiceData(row) == [row EXCEPT !.status = "SENT"]

\* The lookup: 404 when the user's orders have no such invoice.
SendInvoiceLookup(c, q) ==
    /\ api[c].pc = "idle"
    /\ api' = [api EXCEPT ![c] =
                 IF InvoiceOfUser(q)
                   THEN ApiRequest("lookup", "invoice.send", q.user, q.invoice, NULL,
                                   NoOrder, NoOrder, NoOrder, 0, 1, 0, NULL)
                   ELSE ApiRequest("done", "invoice.send", q.user, q.invoice, NULL,
                                   NoOrder, NoOrder, NoOrder, 0, 1, 404, "Invoice not found")]
    /\ UNCHANGED << social, environment, stores, stripeInvoices, invoiceHandles, now, hook, cli,
                    notifications >>

\* sendInvoice(invoiceId) throws (the processor refuses or cannot be
\* reached): the catch answers 500 and the row is left alone.
SendInvoiceProcessorFails(c) ==
    /\ api[c].pc = "lookup" /\ api[c].op = "invoice.send"
    /\ api' = [api EXCEPT ![c] = [@ EXCEPT !.pc = "done", !.status = 500]]
    /\ UNCHANGED << social, environment, stores, stripeInvoices, invoiceHandles, now, hook, cli,
                    notifications >>

\* sendInvoice(invoiceId) returns and the row is updated.
SendInvoiceWrite(c) ==
    LET a == api[c]
    IN  /\ a.pc = "lookup" /\ a.op = "invoice.send"
        /\ invoices' = [invoices EXCEPT ![a.target] = SendInvoiceData(@)]
        /\ api' = [api EXCEPT ![c] = [a EXCEPT !.pc = "done", !.at = now, !.status = 200,
                                                !.storeOps = 2]]
        /\ UNCHANGED << social, environment, payments, memberships, stripeInvoices, invoiceHandles,
                        now, hook, cli, notifications >>

\* --------------------------------------------------- PUT /api/users/:id

\* A profile update that passed authMiddleware: the subject of the token,
\* the user in the path and whether the body passes the validator rules.
UserUpdateRequests ==
    [user : RegisteredUsers, target : RegisteredUsers \cup {"u9"}, valid : BOOLEAN]

\* currentUserId !== targetUserId && currentUser?.role !== 'ADMIN'
UserUpdateForbidden(q) == q.user # q.target /\ users[q.user].role # "ADMIN"

UserUpdateInvalid(c, q) ==
    /\ api[c].pc = "idle"
    /\ ~q.valid
    /\ api' = [api EXCEPT ![c] =
                 ApiRequest("done", "user.update", q.user, q.target, NULL,
                            NoOrder, NoOrder, NoOrder, 0, 0, 400, "errors")]
    /\ UNCHANGED << social, environment, stores, stripeInvoices, invoiceHandles, now, hook, cli,
                    notifications >>

\* prisma.user.findUnique for the role of the current user, then the 403;
\* prisma.user.findUnique for the target, then the 404.
UserUpdateLookup(c, q) ==
    /\ api[c].pc = "idle"
    /\ q.valid
    /\ api' = [api EXCEPT ![c] =
                 IF UserUpdateForbidden(q)
                   THEN ApiRequest("done", "user.update", q.user, q.target, NULL,
                                   NoOrder, NoOrder, NoOrder, 0, 1, 403,
                                   "You can only update your own profile")
                   ELSE IF q.target \notin DOMAIN users
                     THEN ApiRequest("done", "user.update", q.user, q.target, NULL,
                                     NoOrder, NoOrder, NoOrder, 0, 2, 404, "User not found")
                     ELSE ApiRequest("lookup", "user.update", q.user, q.target, NULL,
                                     NoOrder, NoOrder, NoOrder, 0, 2, 0, NULL)]
    /\ UNCHANGED << social, environment, stores, stripeInvoices, invoiceHandles, now, hook, cli,
                    notifications >>

\* prisma.user.update with the fields of the body.
UserUpdateWrite(c) ==
    LET a == api[c]
    IN  /\ a.pc = "lookup" /\ a.op = "user.update"
        /\ users' = [users EXCEPT ![a.target].name = "n1"]
        /\ api' = [api EXCEPT ![c] = [a EXCEPT !.pc = "done", !.at = now, !.status = 200,
                                                !.storeOps = 3]]
        /\ UNCHANGED << social, orders, endpointSecret, firebaseAdmin, stores, stripeInvoices,
                        invoiceHandles, now, hook, cli, notifications >>

\* ------------------------------------------- POST /api/notifications/send

\* A send request that passed authMiddleware: the subject of the token, the
\* userIds and type of the body and whether the body passes the rules.
NotificationSendRequests ==
    [user : RegisteredUsers, userIds : {{"u1"}, {"u2"}}, type : {"SYSTEM"}, valid : BOOLEAN]

\* prisma.user.findMany: the active users of userIds that have a device
\* token.
UsersWithTokens(userIds) ==
    { u \in userIds \cap DOMAIN users : users[u].fcmToken # NULL /\ users[u].isActive }

RECURSIVE NotificationRows(_, _)
\* The rows createMany is given: one per user found.
NotificationRows(found, type) ==
    IF found = {} THEN << >>
    ELSE LET u == CHOOSE x \in found : TRUE
         IN  << [userId |-> u, type |-> type] >> \o NotificationRows(found \ {u}, type)

NotificationSendInvalid(c, q) ==
    /\ api[c].pc = "idle"
    /\ ~q.valid
    /\ api' = [api EXCEPT ![c] =
                 ApiRequest("done", "notification.send", q.user, NULL, q.type,
                            NoOrder, NoOrder, NoOrder, 0, 0, 400, "errors")]
    /\ UNCHANGED << social, environment, stores, stripeInvoices, invoiceHandles, now, hook, cli,
                    notifications >>

\* prisma.user.findUnique for the role of the current user, then the 403;
\* prisma.user.findMany for the recipients, then the 400 when there are none.
NotificationSendLookup(c, q) ==
    /\ api[c].pc = "idle"
    /\ q.valid
    /\ api' = [api EXCEPT ![c] =
                 IF users[q.user].role # "ADMIN"
                   THEN ApiRequest("done", "notification.send", q.user, NULL, q.type,
                                   NoOrder, NoOrder, NoOrder, 0, 1, 403,
                                   "Only admins can send notifications to multiple users")
                   ELSE IF UsersWithTokens(q.userIds) = {}
                     THEN ApiRequest("done", "notification.send", q.user, NULL, q.type,
                                     NoOrder, NoOrder, NoOrder, 0, 2, 400,
                                     "No users found with FCM tokens")
                     ELSE ApiRequest("lookup", "notification.send", q.user,
                                     UsersWithTokens(q.userIds), q.type,
                                     NoOrder, NoOrder, NoOrder, 0, 2, 0, NULL)]
    /\ UNCHANGED << social, environment, stores, stripeInvoices, invoiceHandles, now, hook, cli,
                    notifications >>

\* sendNotificationToMultipleDevices throws: the catch answers 500 before
\* anything is saved.
NotificationSendFails(c) ==
    /\ api[c].pc = "lookup" /\ api[c].op = "notification.send"
    /\ firebaseAdmin # NULL
    /\ api' = [api EXCEPT ![c] = [@ EXCEPT !.pc = "done", !.status = 500,
                                            !.message = "Error sending notifications"]]
    /\ UNCHANGED << social, environment, stores, stripeInvoices, invoiceHandles, now, hook, cli,
                    notifications >>

\* sendNotificationToMultipleDevices returns and createMany saves one row
\* per user found.  Without Firebase the send returned null, and reading
\* result.successCount for the response throws: 500 after the rows are saved.
NotificationSendWrite(c) ==
    LET a == api[c]
    IN  /\ a.pc = "lookup" /\ a.op = "notification.send"
        /\ Len(notifications) < MaxNotifications
        /\ notifications' = notifications \o NotificationRows(a.target, a.input)
        /\ api' = [api EXCEPT ![c] =
                     [a EXCEPT !.pc = "done", !.at = now, !.storeOps = 3,
                               !.status = IF firebaseAdmin = NULL THEN 500 ELSE 200,
                               !.message = IF firebaseAdmin = NULL
                                             THEN "Error sending notifications"
                                             ELSE "Notification sent"]]
        /\ UNCHANGED << social, environment, stores, stripeInvoices, invoiceHandles, now, hook, cli >>

\* ------------------------------------------- the paginated list routes

\* A query parameter as the characters of its string.  A parameter that is
\* absent reads as undefined, which parseInt takes as the text "undefined".
Absent == << "undefined" >>

Digits == {"0", "1", "2", "3", "4", "5", "6", "7", "8", "9"}

DigitValue(ch) ==
    CASE ch = "0" -> 0 [] ch = "1" -> 1 [] ch = "2" -> 2 [] ch = "3" -> 3 [] ch = "4" -> 4
      [] ch = "5" -> 5 [] ch = "6" -> 6 [] ch = "7" -> 7 [] ch = "8" -> 8 [] ch = "9" -> 9

\* The values of page and limit that are tried: absent, in range, zero,
\* negative, around the caps of 50 and 100, not a number, and a number
\* followed by text.
QueryValues ==
    { Absent, << "1" >>, << "3" >>, << "0" >>, << "-", "2" >>, << "a" >>,
      << "5", "0" >>, << "5", "1" >>, << "1", "0", "0" >>, << "1", "0", "1" >>,
      << "2", "x" >> }

RECURSIVE LeadingDigits(_)
\* The longest prefix of str that consists of digits.
LeadingDigits(str) ==
    IF str = << >> \/ Head(str) \notin Digits THEN << >>
    ELSE << Head(str) >> \o LeadingDigits(Tail(str))

RECURSIVE DecimalValue(_)
DecimalValue(digits) ==
    IF digits = << >> THEN 0
    ELSE 10 * DecimalValue(SubSeq(digits, 1, Len(digits) - 1))
           + DigitValue(digits[Len(digits)])

\* parseInt(str): an optional sign, then the leading digits; NaN when there
\* are none.  What follows the digits is ignored.
ParseInt(str) ==
    LET signed == str # << >> /\ Head(str) \in {"-", "+"}
        digits == LeadingDigits(IF signed THEN Tail(str) ELSE str)
    IN  IF digits = << >> THEN [nan |-> TRUE, n |-> 0]
        ELSE [nan |-> FALSE,
              n |-> IF signed /\ Head(str) = "-" THEN 0 - DecimalValue(digits)
                                                  ELSE DecimalValue(digits)]

\* parseInt(str) || fallback: NaN and 0 are falsy.
ParseIntOr(str, fallback) ==
    IF ParseInt(str).nan \/ ParseInt(str).n = 0 THEN fallback ELSE ParseInt(str).n

\* query(name).optional().isInt({ min }): absent passes; otherwise the
\* whole string is an optional sign and a decimal integer without leading
\* zeros, and it is at least min.
IsOptionalIntFrom(str, min) ==
    \/ str = Absent
    \/ LET signed == str # << >> /\ Head(str) \in {"-", "+"}
           body == IF signed THEN Tail(str) ELSE str
       IN  /\ body # << >>
           /\ LeadingDigits(body) = body
           /\ (Len(body) = 1 \/ Head(body) # "0")
           /\ ParseInt(str).n >= min

\* query(name).optional().isInt({ min, max })
IsOptionalInt(str, min, max) ==
    /\ IsOptionalIntFrom(str, min)
    /\ (str = Absent \/ ParseInt(str).n <= max)

\* Math.ceil(total / limit) for a limit that is not 0.
CeilDiv(total, limit) ==
    IF limit > 0 THEN 0 - ((0 - total) \div limit)
                 ELSE 0 - (total \div (0 - limit))

\* The list routes: whether page and limit are validated, the largest limit
\* the validator lets through, and the limit when none is given.
ListEndpoints ==
    { [name |-> "orders", validated |-> TRUE, cap |-> 100, defaultLimit |-> 10],
      [name |-> "users", validated |-> TRUE, cap |-> 100, defaultLimit |-> 10],
      [name |-> "posts", validated |-> TRUE, cap |-> 50, defaultLimit |-> 10],
      [name |-> "notifications", validated |-> TRUE, cap |-> 100, defaultLimit |-> 20],
      [name |-> "payments", validated |-> FALSE, cap |-> 0, defaultLimit |-> 10] }

\* validationResult(req) of a list route; the payments route has no rules.
ListQueryValid(ep, page, limit) ==
    ~ep.validated \/ (IsOptionalIntFrom(page, 1) /\ IsOptionalInt(limit, 1, ep.cap))

\* page, limit, skip and pages as the route computes them, for a count of
\* total rows.
Pagination(ep, page, limit, total) ==
    LET p == ParseIntOr(page, 1)
        l == ParseIntOr(limit, ep.defaultLimit)
    IN  [page |-> p, limit |-> l, skip |-> (p - 1) * l, total |-> total,
         pages |-> CeilDiv(total, l)]

\* A list request: 400 for its validation errors, otherwise findMany and
\* count, and the page with its pagination block.
ListRequest(c, ep, page, limit, total) ==
    /\ api[c].pc = "idle"
    /\ api' = [api EXCEPT ![c] =
                 IF ListQueryValid(ep, page, limit)
                   THEN ApiRequest("done", "list", NULL, ep.name,
                                   Pagination(ep, page, limit, total),
                                   NoOrder, NoOrder, NoOrder, 0, 2, 200, NULL)
                   ELSE ApiRequest("done", "list", NULL, ep.name,
                                   Pagination(ep, Absent, Absent, 0),
                                   NoOrder, NoOrder, NoOrder, 0, 0, 400, "errors")]
    /\ UNCHANGED << social, environment, stores, stripeInvoices, invoiceHandles, now, hook, cli,
                    notifications >>

\* ----------------------------------------------------- the specifications

NotificationResults == {"lookup_failed", "no_token", "unconfigured", "sent", "send_failed"}

\* Webhook deliveries about payments, with the deliveries that are stopped
\* before the switch and those of unhandled types; two in flight at once.
PaymentDeliveries ==
    DeliveriesOf(PaymentSucceededEvents \cup UnhandledEvents) \cup StoppedDeliveries

Next ==
    \/ \E r \in Reqs, d \in PaymentDeliveries : WebhookUnauthorized(r, d)
    \/ \E r \in Reqs, d \in PaymentDeliveries : WebhookSecretMissing(r, d)
    \/ \E r \in Reqs, d \in PaymentDeliveries : WebhookInvalidSignature(r, d)
    \/ \E r \in Reqs, d \in PaymentDeliveries : WebhookUnhandledType(r, d)
    \/ \E r \in Reqs, d \in PaymentDeliveries : WebhookDispatch(r, d)
    \/ \E r \in Reqs : WebhookHandlerWrites(r)
    \/ \E r \in Reqs : WebhookHandlerRejected(r)
    \/ \E r \in Reqs : WebhookStoreUnavailable(r)
    \/ \E r \in Reqs, outcome \in NotificationResults : WebhookNotify(r, outcome)
    \/ \E r \in Reqs : WebhookFinished(r)

Spec == Init /\ [][Next]_vars

\* Webhook deliveries about subscriptions, one at a time, while time passes.
SubscriptionDeliveries ==
    DeliveriesOf(SubscriptionCreatedEvents \cup SubscriptionUpdatedEvents
                   \cup SubscriptionDeletedEvents)

NextSubscriptions ==
    \/ \E d \in SubscriptionDeliveries : WebhookSecretMissing("r1", d)
    \/ \E d \in SubscriptionDeliveries : WebhookDispatch("r1", d)
    \/ WebhookHandlerWrites("r1")
    \/ WebhookHandlerRejected("r1")
    \/ WebhookStoreUnavailable("r1")
    \/ WebhookFinished("r1")
    \/ Tick

SpecSubscriptions == Init /\ [][NextSubscriptions]_vars

\* create-invoice requests and webhook deliveries about invoices.
InvoiceDeliveries == DeliveriesOf(InvoicePaidEvents)

NextInvoices ==
    \/ \E q \in InvoiceRequests : CreateInvoiceRefused(q)
    \/ \E q \in InvoiceRequests : CreateInvoiceProcessorFails(q)
    \/ \E q \in InvoiceRequests : CreateInvoiceAtProcessor(q)
    \/ CreateInvoiceStored
    \/ CreateInvoiceStoreFails
    \/ ClientFinished
    \/ \E r \in Reqs, d \in InvoiceDeliveries : WebhookSecretMissing(r, d)
    \/ \E r \in Reqs, d \in InvoiceDeliveries : WebhookDispatch(r, d)
    \/ \E r \in Reqs : WebhookHandlerWrites(r)
    \/ \E r \in Reqs : WebhookStoreUnavailable(r)
    \/ \E r \in Reqs : WebhookFinished(r)

SpecInvoices == Init /\ [][NextInvoices]_vars

\* Webhook deliveries that create rows: payment_intent.succeeded and
\* customer.subscription.created, with and without metadata.userId; two in
\* flight at once.
CreateDeliveries ==
    DeliveriesOf({ e \in PaymentSucceededEvents : e.id = "pi_1" /\ e.userId \in {"u1", NULL} }
                   \cup SubscriptionCreatedEvents)

NextCreates ==
    \/ \E r \in Reqs, d \in CreateDeliveries : WebhookSecretMissing(r, d)
    \/ \E r \in Reqs, d \in CreateDeliveries : WebhookDispatch(r, d)
    \/ \E r \in Reqs : WebhookHandlerWrites(r)
    \/ \E r \in Reqs : WebhookHandlerRejected(r)
    \/ \E r \in Reqs : WebhookStoreUnavailable(r)
    \/ \E r \in Reqs, outcome \in NotificationResults : WebhookNotify(r, outcome)
    \/ \E r \in Reqs : WebhookFinished(r)

SpecCreates == Init /\ [][NextCreates]_vars

\* Updates of one order, two in flight at once, while time passes.
NextOrders ==
    \/ \E c \in Clients, q \in OrderUpdateRequests : OrderUpdateInvalid(c, q)
    \/ \E c \in Clients, q \in OrderUpdateRequests : OrderUpdateLookup(c, q)
    \/ \E c \in Clients : OrderUpdateWrite(c)
    \/ \E c \in Clients : ApiFinished(c)
    \/ Tick

SpecOrders == Init /\ [][NextOrders]_vars

\* The processor ID of an invoice that is on record in the Invoice table.
RecordedStripeInvoiceId == "in_0"

\* The store for the life of invoices: as in Init, and the Invoice table
\* holds one DRAFT invoice of order o1 whose stripeInvoiceId is on record.
\* No route writes that column (create-invoice leaves it null); the row
\* stands for the invoices the filter of handleInvoicePaymentSucceeded is
\* written for.
InitInvoiceLifecycle ==
    /\ users = [u \in RegisteredUsers |->
                  IF u = "u1" THEN [stripeCustomerId |-> "cus_1", fcmToken |-> "tok_1",
                                    role |-> "USER", name |-> "n0", isActive |-> TRUE]
                              ELSE [stripeCustomerId |-> NULL, fcmToken |-> NULL,
                                    role |-> "ADMIN", name |-> "n0", isActive |-> TRUE]]
    /\ orders = [o \in OrderIds |->
                   [userId |-> IF o = "o1" THEN "u1" ELSE "u2",
                    status |-> "PENDING", completedAt |-> NullDate]]
    /\ payments = << >>
    /\ invoices = << [status |-> "DRAFT", orderId |-> "o1",
                      stripeInvoiceId |-> RecordedStripeInvoiceId] >>
    /\ memberships = << >>
    /\ stripeInvoices = {}
    /\ invoiceHandles = {}
    /\ endpointSecret = "whsec"
    /\ firebaseAdmin \in {NULL, "app"}
    /\ now = 1
    /\ hook = [r \in Reqs |-> IdleSlot]
    /\ cli = IdleClient
    /\ notifications = << >>
    /\ api = [c \in Clients |-> IdleApi]
    /\ posts = [p \in PostIds |-> [likes |-> 0, isPublished |-> TRUE]]
    /\ postLikes = << >>

InvoiceLifecycleDeliveries ==
    DeliveriesOf({ EventObject(STRIPE_WEBHOOK_EVENTS.INVOICE_PAYMENT_SUCCEEDED, i, 0,
                               NULL, NULL, NULL) : i \in {RecordedStripeInvoiceId, "in_1"} })

\* create-invoice, send-invoice and invoice.payment_succeeded deliveries,
\* one of each in flight at once.
NextInvoiceLifecycle ==
    \/ \E q \in InvoiceRequests : CreateInvoiceRefused(q)
    \/ \E q \in InvoiceRequests : CreateInvoiceAtProcessor(q)
    \/ CreateInvoiceStored
    \/ ClientFinished
    \/ \E q \in SendInvoiceRequests : SendInvoiceLookup("c1", q)
    \/ SendInvoiceProcessorFails("c1")
    \/ SendInvoiceWrite("c1")
    \/ ApiFinished("c1")
    \/ \E d \in InvoiceLifecycleDeliveries : WebhookDispatch("r1", d)
    \/ WebhookHandlerWrites("r1")
    \/ WebhookFinished("r1")

SpecInvoiceLifecycle == InitInvoiceLifecycle /\ [][NextInvoiceLifecycle]_vars

\* Order updates, profile updates and notification sends at the boundary:
\* their validation and their ownership and role checks.
NextBoundary ==
    \/ \E c \in Clients, q \in OrderUpdateRequests : OrderUpdateInvalid(c, q)
    \/ \E c \in Clients, q \in UserUpdateRequests : UserUpdateInvalid(c, q)
    \/ \E c \in Clients, q \in UserUpdateRequests : UserUpdateLookup(c, q)
    \/ \E c \in Clients : UserUpdateWrite(c)
    \/ \E c \in Clients, q \in NotificationSendRequests : NotificationSendInvalid(c, q)
    \/ \E c \in Clients, q \in NotificationSendRequests : NotificationSendLookup(c, q)
    \/ \E c \in Clients : NotificationSendFails(c)
    \/ \E c \in Clients : NotificationSendWrite(c)
    \/ \E c \in Clients : ApiFinished(c)

SpecBoundary == Init /\ [][NextBoundary]_vars

\* List requests with every tried value of page and limit.
NextLists ==
    \/ \E ep \in ListEndpoints, page \in QueryValues, limit \in QueryValues,
          total \in 0..MaxTotal : ListRequest("c1", ep, page, limit, total)
    \/ ApiFinished("c1")

SpecLists == Init /\ [][NextLists]_vars

\* Every recognized event type, one delivery at a time, on a store that
\* holds an invoice the reconciler can find, while time passes.
ReconcilerDeliveries ==
    DeliveriesOf({ e \in PaymentSucceededEvents : e.userId = "u1" }
                   \cup { e \in SubscriptionCreatedEvents : e.userId = "u1" }
                   \cup SubscriptionUpdatedEvents \cup SubscriptionDeletedEvents)
        \cup InvoiceLifecycleDeliveries

NextReconciler ==
    \/ \E d \in ReconcilerDeliveries : WebhookDispatch("r1", d)
    \/ WebhookHandlerWrites("r1")
    \/ WebhookHandlerRejected("r1")
    \/ WebhookStoreUnavailable("r1")
    \/ \E outcome \in NotificationResults : WebhookNotify("r1", outcome)
    \/ WebhookFinished("r1")
    \/ Tick

SpecReconciler == InitInvoiceLifecycle /\ [][NextReconciler]_vars

\* Subscription events where the only cancellation is by
\* customer.subscription.deleted and the only update says "active": a late
\* or re-delivered update after a deletion.
LateUpdateDeliveries ==
    DeliveriesOf({ e \in SubscriptionCreatedEvents : e.userId = "u1" }
                   \cup { e \in SubscriptionUpdatedEvents : e.status = "active" }
                   \cup SubscriptionDeletedEvents)

NextLateUpdate ==
    \/ \E r \in Reqs, d \in LateUpdateDeliveries : WebhookDispatch(r, d)
    \/ \E r \in Reqs : WebhookHandlerWrites(r)
    \/ \E r \in Reqs : WebhookHandlerRejected(r)
    \/ \E r \in Reqs : WebhookFinished(r)
    \/ Tick

SpecLateUpdate == InitInvoiceLifecycle /\ [][NextLateUpdate]_vars

\* ------------------------------ POST /api/stripe/cancel-subscription

\* A cancel-subscription request that passed authMiddleware: the subject of
\* the token, the subscriptionId of the body and whether the body passes the
\* express-validator rules.
CancelSubscriptionRequests ==
    [user : RegisteredUsers, subscription : SubscriptionIds, valid : BOOLEAN]

\* Variant: the filter of the lookup has no userId.
MembershipOfAnyUser(q) ==
    { i \in 1..Len(memberships) : memberships[i].stripeSubscriptionId = q.subscription }

\* The ids of the rows that match
\* where: { stripeSubscriptionId: subscriptionId, userId }
MembershipOfUser(q) ==
    { i \in 1..Len(memberships) :
        /\ memberships[i].stripeSubscriptionId = q.subscription
        /\ memberships[i].userId = q.user }

\* The Membership a request holds after its lookup: its id and the row read.
MembershipFound(i) ==
    [id |-> i, userId |-> memberships[i].userId, status |-> memberships[i].status]

\* validationResult(req) is not empty: 400, before any store operation.
CancelSubscriptionInvalid(c, q) ==
    /\ api[c].pc = "idle"
    /\ ~q.valid
    /\ api' = [api EXCEPT ![c] =
                 ApiRequest("done", "stripe.cancel", q.user, q.subscription, NULL,
                            NoOrder, NoOrder, NoOrder, 0, 0, 400, "errors")]
    /\ UNCHANGED << social, environment, stores, stripeInvoices, invoiceHandles, now, hook, cli,
                    notifications >>

\* prisma.membership.findFirst: 404 when the user has no Membership with
\* that subscription ID, otherwise the route goes on to the processor.
CancelSubscriptionLookup(c, q) ==
    LET found == MembershipOfUser(q)
        first == CHOOSE i \in found : \A j \in found : i <= j
    IN  /\ api[c].pc = "idle"
        /\ q.valid
        /\ api' = [api EXCEPT ![c] =
                     IF found # {}
                       THEN ApiRequest("lookup", "stripe.cancel", q.user, q.subscription, NULL,
                                       MembershipFound(first), NoOrder, NoOrder, 0, 1, 0, NULL)
                       ELSE ApiRequest("done", "stripe.cancel", q.user, q.subscription, NULL,
                                       NoOrder, NoOrder, NoOrder, 0, 1, 404,
                                       "Subscription not found")]
        /\ UNCHANGED << social, environment, stores, stripeInvoices, invoiceHandles, now, hook,
                        cli, notifications >>

\* cancelSubscription throws (stripe.subscriptions.cancel failed): the catch
\* of the route answers 500 and membership.update is never reached.
CancelSubscriptionProcessorFails(c) ==
    /\ api[c].pc = "lookup" /\ api[c].op = "stripe.cancel"
    /\ api' = [api EXCEPT ![c] = [@ EXCEPT !.pc = "done", !.status = 500,
                                           !.message = "Error cancelling subscription"]]
    /\ UNCHANGED << social, environment, stores, stripeInvoices, invoiceHandles, now, hook, cli,
                    notifications >>

\* cancelSubscription returns: the processor has cancelled the subscription
\* and the route goes on to its write.
CancelSubscriptionAtProcessor(c) ==
    /\ api[c].pc = "lookup" /\ api[c].op = "stripe.cancel"
    /\ api' = [api EXCEPT ![c] = [@ EXCEPT !.pc = "write"]]
    /\ UNCHANGED << social, environment, stores, stripeInvoices, invoiceHandles, now, hook, cli,
                    notifications >>

\* prisma.membership.update({ where: { id: membership.id },
\* data: { status: 'CANCELLED', endDate: new Date() } }), then 200.
CancelSubscriptionWrite(c) ==
    LET a == api[c]
    IN  /\ a.pc = "write" /\ a.op = "stripe.cancel"
        /\ memberships' = [memberships EXCEPT ![a.existing.id] =
                             [@ EXCEPT !.status = "CANCELLED", !.endDate = Date(now)]]
        /\ api' = [api EXCEPT ![c] = [a EXCEPT !.pc = "done", !.at = now, !.storeOps = 2,
                                               !.status = 200,
                                               !.message = "Subscription cancelled successfully"]]
        /\ UNCHANGED << social, environment, payments, invoices, stripeInvoices, invoiceHandles,
                        now, hook, cli, notifications >>

\* customer.subscription.created deliveries for either user: they are what
\* puts Memberships in the store.
CancelDeliveries ==
    DeliveriesOf({ EventObject(STRIPE_WEBHOOK_EVENTS.CUSTOMER_SUBSCRIPTION_CREATED, s, 0, u,
                               NULL, "active") : s \in SubscriptionIds, u \in RegisteredUsers })

\* Cancel-subscription requests, two in flight at once, on Memberships the
\* webhook creates.
NextCancel ==
    \/ \E d \in CancelDeliveries : WebhookDispatch("r1", d)
    \/ WebhookHandlerWrites("r1")
    \/ WebhookHandlerRejected("r1")
    \/ WebhookFinished("r1")
    \/ \E c \in Clients, q \in CancelSubscriptionRequests : CancelSubscriptionInvalid(c, q)
    \/ \E c \in Clients, q \in CancelSubscriptionRequests : CancelSubscriptionLookup(c, q)
    \/ \E c \in Clients : CancelSubscriptionProcessorFails(c)
    \/ \E c \in Clients : CancelSubscriptionAtProcessor(c)
    \/ \E c \in Clients : CancelSubscriptionWrite(c)
    \/ \E c \in Clients : ApiFinished(c)

SpecCancel == InitInvoiceLifecycle /\ [][NextCancel]_vars

\* Gets, updates and deletes of orders by either user, two requests in
\* flight at once.
NextOrderAccess ==
    \/ \E c \in Clients, q \in OrderRequests : OrderGet(c, q)
    \/ \E c \in Clients, q \in OrderUpdateRequests : OrderUpdateInvalid(c, q)
    \/ \E c \in Clients, q \in OrderUpdateRequests : OrderUpdateLookup(c, q)
    \/ \E c \in Clients : OrderUpdateWrite(c)
    \/ \E c \in Clients : OrderUpdateGone(c)
    \/ \E c \in Clients, q \in OrderRequests : OrderDeleteLookup(c, q)
    \/ \E c \in Clients : OrderDeleteWrite(c)
    \/ \E c \in Clients : OrderDeleteGone(c)
    \/ \E c \in Clients : ApiFinished(c)

SpecOrderAccess == Init /\ [][NextOrderAccess]_vars

\* --------------------- GET /api/users/:id/public and GET /api/posts

\* A request to one of the two routes: whether it carries a bearer token
\* that verifies, the subject of the token, the user id in the path (the
\* profile route) and whether the query passes the validators (the feed).
PublicRequests ==
    [bearer : BOOLEAN, user : RegisteredUsers, target : RegisteredUsers, valid : BOOLEAN]

\* app.use('/api/users', authMiddleware, usersRoutes): what a request to any
\* route of the users router must pass first.
UsersRouterAdmits(q) == authMiddleware(q)

\* app.use('/api/posts', authMiddleware, postsRoutes)
PostsRouterAdmits(q) == authMiddleware(q)

\* optionalAuthMiddleware: req.user is the subject of a token that verifies
\* and null otherwise; next() is called either way.
optionalAuthMiddleware(q) == IF q.bearer THEN q.user ELSE NULL

\* req.user as the request reaches a route: null without a token.
Requester(q) == IF q.bearer THEN q.user ELSE NULL

\* The request is answered 401 by the authMiddleware its router is mounted
\* behind and never reaches the route.
PublicProfileUnauthorized(c, q) ==
    /\ api[c].pc = "idle"
    /\ ~UsersRouterAdmits(q)
    /\ api' = [api EXCEPT ![c] =
                 ApiRequest("done", "users.public", Requester(q), q.target, NULL,
                            NoOrder, NoOrder, NoOrder, 0, 0, 401, "Invalid or expired token")]
    /\ UNCHANGED << social, environment, stores, stripeInvoices, invoiceHandles, now, hook, cli,
                    notifications >>

\* GET /:id/public: prisma.user.findFirst({ where: { id, isActive: true } }),
\* 404 or the profile.
PublicProfile(c, q) ==
    /\ api[c].pc = "idle"
    /\ UsersRouterAdmits(q)
    /\ api' = [api EXCEPT ![c] =
                 IF q.target \in DOMAIN users /\ users[q.target].isActive
                   THEN ApiRequest("done", "users.public", Requester(q), q.target, NULL,
                                   NoOrder, NoOrder, NoOrder, 0, 1, 200, "data")
                   ELSE ApiRequest("done", "users.public", Requester(q), q.target, NULL,
                                   NoOrder, NoOrder, NoOrder, 0, 1, 404, "User not found")]
    /\ UNCHANGED << social, environment, stores, stripeInvoices, invoiceHandles, now, hook, cli,
                    notifications >>

PostsFeedUnauthorized(c, q) ==
    /\ api[c].pc = "idle"
    /\ ~PostsRouterAdmits(q)
    /\ api' = [api EXCEPT ![c] =
                 ApiRequest("done", "posts.list", Requester(q), NULL, NULL,
                            NoOrder, NoOrder, NoOrder, 0, 0, 401, "Invalid or expired token")]
    /\ UNCHANGED << social, environment, stores, stripeInvoices, invoiceHandles, now, hook, cli,
                    notifications >>

\* GET / of the posts router: optionalAuthMiddleware, the validators (400),
\* then the feed, read for currentUserId = req.user?.id.
PostsFeed(c, q) ==
    /\ api[c].pc = "idle"
    /\ PostsRouterAdmits(q)
    /\ api' = [api EXCEPT ![c] =
                 IF q.valid
                   THEN ApiRequest("done", "posts.list", optionalAuthMiddleware(q), NULL, NULL,
                                   NoOrder, NoOrder, NoOrder, 0, 2, 200, "data")
                   ELSE ApiRequest("done", "posts.list", optionalAuthMiddleware(q), NULL, NULL,
                                   NoOrder, NoOrder, NoOrder, 0, 0, 400, "errors")]
    /\ UNCHANGED << social, environment, stores, stripeInvoices, invoiceHandles, now, hook, cli,
                    notifications >>

\* Requests to the public profile and to the feed, with and without a token.
NextPublic ==
    \/ \E c \in Clients, q \in PublicRequests : PublicProfileUnauthorized(c, q)
    \/ \E c \in Clients, q \in PublicRequests : PublicProfile(c, q)
    \/ \E c \in Clients, q \in PublicRequests : PostsFeedUnauthorized(c, q)
    \/ \E c \in Clients, q \in PublicRequests : PostsFeed(c, q)
    \/ \E c \in Clients : ApiFinished(c)

SpecPublic == Init /\ [][NextPublic]_vars

\* ------------------------------------------ POST /api/posts/:id/like

\* A like toggle that passed authMiddleware: the subject of the token and
\* the post in the path.
LikeRequests == [user : RegisteredUsers, post : PostIds]

\* The ids of the PostLike rows of a post and a user.
PostLikesOf(postId, userId) ==
    { i \in 1..Len(postLikes) : postLikes[i].postId = postId /\ postLikes[i].userId = userId }

\* Variant: PostLike has no unique key on (postId, userId).
PostLikeNotIndexed(postId, userId) == FALSE

\* The compound unique key postId_userId of PostLike (P2002 on a second
\* insert of the pair).
PostLikeTaken(postId, userId) == PostLikesOf(postId, userId) # {}

\* prisma.post.findFirst({ where: { id: postId, isPublished: true } }): 404
\* when there is no such post.
LikeFindPost(c, q) ==
    /\ api[c].pc = "idle"
    /\ api' = [api EXCEPT ![c] =
                 IF q.post \in DOMAIN posts /\ posts[q.post].isPublished
                   THEN ApiRequest("lookup", "post.like", q.user, q.post, NULL,
                                   NoOrder, NoOrder, NoOrder, 0, 1, 0, NULL)
                   ELSE ApiRequest("done", "post.like", q.user, q.post, NULL,
                                   NoOrder, NoOrder, NoOrder, 0, 1, 404, "Post not found")]
    /\ UNCHANGED << social, environment, stores, stripeInvoices, invoiceHandles, now, hook, cli,
                    notifications >>

\* prisma.postLike.findUnique by postId_userId: existingLike decides which
\* branch the request takes ("unlike" when there is a row, "like" otherwise).
LikeFindExisting(c) ==
    LET a == api[c]
    IN  /\ a.pc = "lookup" /\ a.op = "post.like"
        /\ api' = [api EXCEPT ![c] =
                     [a EXCEPT !.pc = "write", !.storeOps = 2,
                               !.input = IF PostLikesOf(a.target, a.user) # {}
                                           THEN "unlike" ELSE "like"]]
        /\ UNCHANGED << social, environment, stores, stripeInvoices, invoiceHandles, now, hook,
                        cli, notifications >>

\* prisma.postLike.create({ data: { postId, userId } })
LikeCreate(c) ==
    LET a == api[c]
    IN  /\ a.pc = "write" /\ a.op = "post.like" /\ a.input = "like"
        /\ ~PostLikeTaken(a.target, a.user)
        /\ postLikes' = Append(postLikes, [postId |-> a.target, userId |-> a.user])
        /\ api' = [api EXCEPT ![c] = [a EXCEPT !.pc = "count", !.storeOps = 3]]
        /\ UNCHANGED << posts, environment, stores, stripeInvoices, invoiceHandles, now, hook,
                        cli, notifications >>

\* The create meets the unique key (the pair was inserted after the
\* findUnique): P2002, which errorHandler answers with 400; the route never
\* reaches its increment.
LikeCreateRejected(c) ==
    LET a == api[c]
    IN  /\ a.pc = "write" /\ a.op = "post.like" /\ a.input = "like"
        /\ PostLikeTaken(a.target, a.user)
        /\ api' = [api EXCEPT ![c] = [a EXCEPT !.pc = "done", !.storeOps = 3, !.status = 400,
                                               !.message = "Duplicate field value entered"]]
        /\ UNCHANGED << social, environment, stores, stripeInvoices, invoiceHandles, now, hook,
                        cli, notifications >>

\* prisma.postLike.delete({ where: { postId_userId } })
LikeDelete(c) ==
    LET a == api[c]
        Kept(row) == ~(row.postId = a.target /\ row.userId = a.user)
    IN  /\ a.pc = "write" /\ a.op = "post.like" /\ a.input = "unlike"
        /\ PostLikesOf(a.target, a.user) # {}
        /\ postLikes' = SelectSeq(postLikes, Kept)
        /\ api' = [api EXCEPT ![c] = [a EXCEPT !.pc = "count", !.storeOps = 3]]
        /\ UNCHANGED << posts, environment, stores, stripeInvoices, invoiceHandles, now, hook,
                        cli, notifications >>

\* The delete finds no row (the pair was removed after the findUnique):
\* P2025, answered 404 by errorHandler; the route never reaches its
\* decrement.
LikeDeleteGone(c) ==
    LET a == api[c]
    IN  /\ a.pc = "write" /\ a.op = "post.like" /\ a.input = "unlike"
        /\ PostLikesOf(a.target, a.user) = {}
        /\ api' = [api EXCEPT ![c] = [a EXCEPT !.pc = "done", !.storeOps = 3, !.status = 404,
                                               !.message = "Record not found"]]
        /\ UNCHANGED << social, environment, stores, stripeInvoices, invoiceHandles, now, hook,
                        cli, notifications >>

\* prisma.post.update with likes: { increment: 1 } or { decrement: 1 }, which
\* the store applies to the value it holds; then 200.
LikeCount(c) ==
    LET a == api[c]
    IN  /\ a.pc = "count" /\ a.op = "post.like"
        /\ posts' = [posts EXCEPT ![a.target].likes =
                       IF a.input = "like" THEN @ + 1 ELSE @ - 1]
        /\ api' = [api EXCEPT ![c] =
                     [a EXCEPT !.pc = "done", !.storeOps = 4, !.status = 200,
                               !.message = IF a.input = "like"
                                             THEN "Post liked successfully"
                                             ELSE "Post unliked successfully"]]
        /\ UNCHANGED << postLikes, environment, stores, stripeInvoices, invoiceHandles, now,
                        hook, cli, notifications >>

\* Like toggles of either user, two in flight at once.
NextLikes ==
    \/ \E c \in Clients, q \in LikeRequests : LikeFindPost(c, q)
    \/ \E c \in Clients : LikeFindExisting(c)
    \/ \E c \in Clients : LikeCreate(c)
    \/ \E c \in Clients : LikeCreateRejected(c)
    \/ \E c \in Clients : LikeDelete(c)
    \/ \E c \in Clients : LikeDeleteGone(c)
    \/ \E c \in Clients : LikeCount(c)
    \/ \E c \in Clients : ApiFinished(c)

SpecLikes == Init /\ [][NextLikes]_vars

\* ------------------------------------------ DELETE /api/auth/account

\* An account deletion that passed authMiddleware: the subject of the token.
AccountDeleteRequests == [user : RegisteredUsers]

\* prisma.order.findFirst({ where: { userId, status: { in: ['PENDING',
\* 'IN_PROGRESS'] } } }) returns a row.
HasActiveOrders(userId) ==
    \E o \in DOMAIN orders :
        orders[o].userId = userId /\ orders[o].status \in {"PENDING", "IN_PROGRESS"}

\* The route up to its await of prisma.user.update: 400 when the user has
\* an active order.
AccountDeleteLookup(c, q) ==
    /\ api[c].pc = "idle"
    /\ api' = [api EXCEPT ![c] =
                 IF HasActiveOrders(q.user)
                   THEN ApiRequest("done", "account.delete", q.user, q.user, NULL,
                                   NoOrder, NoOrder, NoOrder, 0, 1, 400,
                                   "Cannot delete account with active orders")
                   ELSE ApiRequest("lookup", "account.delete", q.user, q.user, NULL,
                                   NoOrder, NoOrder, NoOrder, 0, 1, 0, NULL)]
    /\ UNCHANGED << social, environment, stores, stripeInvoices, invoiceHandles, now, hook, cli,
                    notifications >>

\* prisma.user.update({ where: { id: userId }, data: { isActive: false } }),
\* then 200.
AccountDeleteWrite(c) ==
    LET a == api[c]
    IN  /\ a.pc = "lookup" /\ a.op = "account.delete"
        /\ users' = [users EXCEPT ![a.user].isActive = FALSE]
        /\ api' = [api EXCEPT ![c] = [a EXCEPT !.pc = "done", !.at = now, !.storeOps = 2,
                                               !.status = 200,
                                               !.message = "Account deactivated successfully"]]
        /\ UNCHANGED << social, orders, endpointSecret, firebaseAdmin, stores, stripeInvoices,
                        invoiceHandles, now, hook, cli, notifications >>

\* Account deletions and order updates, two requests in flight at once.
NextAccount ==
    \/ \E c \in Clients, q \in AccountDeleteRequests : AccountDeleteLookup(c, q)
    \/ \E c \in Clients : AccountDeleteWrite(c)
    \/ \E c \in Clients, q \in OrderUpdateRequests : OrderUpdateInvalid(c, q)
    \/ \E c \in Clients, q \in OrderUpdateRequests : OrderUpdateLookup(c, q)
    \/ \E c \in Clients : OrderUpdateWrite(c)
    \/ \E c \in Clients : ApiFinished(c)

SpecAccount == Init /\ [][NextAccount]_vars

TypeOK ==
    /\ now \in 1..MaxTime
    /\ \A r \in Reqs : hook[r].pc \in {"idle", "handler", "notify", "done"}
    /\ \A r \in Reqs : hook[r].status \in {0, 200, 400, 401, 500}
    /\ cli.pc \in {"idle", "create", "done"}
    /\ \A c \in Clients : api[c].pc \in {"idle", "lookup", "write", "count", "done"}
    /\ \A o \in DOMAIN orders : orders[o].status \in OrderStatuses
    /\ Len(notifications) <= MaxNotifications


\* ------------------------------------------------------------- properties

RecognizedTypes ==
    { "payment_intent.succeeded", "invoice.payment_succeeded",
      "customer.subscription.created", "customer.subscription.updated",
      "customer.subscription.deleted" }

\* The request in slot r has been answered.
Done(r) == hook[r].pc = "done"

\* The request in slot r got as far as the signature check: it passed the
\* router's middleware and the endpoint secret is configured.
Verified(r) == hook[r].delivery.bearer /\ endpointSecret # NULL

\* The request in slot r reached the switch with its event and has been
\* answered.
Processed(r) == Done(r) /\ Verified(r) /\ hook[r].delivery.sig = "valid"

PaymentRowsOf(id) == { i \in 1..Len(payments) : payments[i].stripePaymentId = id }

\* C1: a delivery whose signature does not verify over the body received
\* (a wrong header, or a valid header over a tampered body) never gets past
\* the check: it is answered 400, and it has written no Payment, Invoice or
\* Membership row.
C1_InvalidSignatureRejected ==
    \A r \in Reqs :
        (hook[r].pc # "idle" /\ Verified(r) /\ hook[r].delivery.sig # "valid")
            => /\ Done(r)
               /\ hook[r].status = 400
               /\ hook[r].written = {}

\* C1 happens: a tampered body with a valid header was answered 400 while the
\* Payment table has rows.
C1_Witness ==
    \E r \in Reqs :
        /\ Done(r) /\ Verified(r)
        /\ hook[r].delivery.sig = "tampered_body"
        /\ hook[r].status = 400
        /\ Len(payments) > 0

\* C2: an acknowledged payment_intent.succeeded event with a known userId
\* has created exactly one row, a Payment with status COMPLETED, the event's
\* payment id as external reference, the event's user as owner and the
\* event amount divided by 100 as amount, and that row is in the table.
C2_PaymentCreated ==
    \A r \in Reqs :
        ( /\ Done(r) /\ hook[r].status = 200
          /\ hook[r].delivery.event.type = "payment_intent.succeeded"
          /\ hook[r].delivery.event.userId \in DOMAIN users )
            => LET e == hook[r].delivery.event
               IN  /\ Cardinality(hook[r].written) = 1
                   /\ \A w \in hook[r].written :
                        /\ w.table = "Payment"
                        /\ w.row.status = "COMPLETED"
                        /\ w.row.stripePaymentId = e.id
                        /\ w.row.userId = e.userId
                        /\ w.row.amount.hundredths \in 0..99
                        /\ 100 * w.row.amount.units + w.row.amount.hundredths = e.amount
                        /\ w.id \in 1..Len(payments) /\ payments[w.id] = w.row

\* C2 happens: the event for 1999 cents was acknowledged, and so was the one
\* for 250 cents.
C2_Witness ==
    /\ \E r \in Reqs :
        /\ Done(r) /\ hook[r].status = 200
        /\ hook[r].delivery.event.type = "payment_intent.succeeded"
        /\ hook[r].delivery.event.amount = 1999
    /\ \E i \in 1..Len(payments) : payments[i].stripePaymentId = "pi_2"

\* C3: no two Payment rows share an external payment reference, whatever
\* deliveries were processed, one after the other or at the same time.
C3_PaymentReferenceUnique ==
    \A i, j \in 1..Len(payments) :
        payments[i].stripePaymentId = payments[j].stripePaymentId => i = j

\* C3 happens: the same event was delivered twice and the two requests
\* overlapped: the first has written its row and is still in its
\* notification block, the second has been refused by the store in the
\* meantime, and there is one row for the payment.
C3_Witness ==
    /\ hook["r1"].pc = "notify" /\ Done("r2")
    /\ hook["r1"].delivery = hook["r2"].delivery
    /\ hook["r2"].status = 500 /\ hook["r2"].error = "constraint"
    /\ Cardinality(PaymentRowsOf(hook["r1"].delivery.event.id)) = 1

\* C4: a delivery with a valid signature and no bearer token is not
\* rejected with 401: it reaches the reconciler.
C4_WebhookNeedsNoBearerToken ==
    \A r \in Reqs :
        (Done(r) /\ ~hook[r].delivery.bearer /\ hook[r].delivery.sig = "valid")
            => hook[r].status # 401


\* C5: when an invoice.payment_succeeded event carrying the processor's
\* invoice ID that create-invoice returned is processed and acknowledged,
\* the Invoice row create-invoice made is PAID.
C5_CreatedInvoiceGetsPaid ==
    [][ \A r \in Reqs :
          ( /\ hook[r].pc = "handler" /\ hook'[r].pc = "done" /\ hook'[r].status = 200
            /\ hook[r].delivery.event.type = "invoice.payment_succeeded" )
              => \A h \in invoiceHandles :
                    h.stripeInvoiceId = hook[r].delivery.event.id
                        => invoices'[h.invoiceId].status = "PAID" ]_vars

\* C6: a verified invoice.payment_succeeded event whose invoice ID matched no
\* Invoice row, and whose store operation did not fail, is acknowledged
\* with {received:true} and has written no row of any table.
C6_UnknownInvoiceIsNoOp ==
    \A r \in Reqs :
        ( /\ Processed(r) /\ hook[r].delivery.event.type = "invoice.payment_succeeded"
          /\ hook[r].error = "none" /\ hook[r].matched = {} )
            => /\ hook[r].status = 200 /\ hook[r].body = "received"
               /\ hook[r].written = {}

\* C6 happens: such an event was acknowledged while the Invoice table has a
\* row, which it left a DRAFT.
C6_Witness ==
    \E r \in Reqs :
        /\ Done(r) /\ hook[r].delivery.event.type = "invoice.payment_succeeded"
        /\ hook[r].status = 200 /\ hook[r].matched = {}
        /\ Len(invoices) > 0
        /\ \A i \in 1..Len(invoices) : invoices[i].status = "DRAFT"

\* C7: an acknowledged customer.subscription.updated event whose status is
\* not "active" leaves every Membership it wrote CANCELLED with its end
\* timestamp set to the time of processing.
C7_NotActiveMeansEnded ==
    \A r \in Reqs :
        ( /\ Done(r) /\ hook[r].status = 200
          /\ hook[r].delivery.event.type = "customer.subscription.updated"
          /\ hook[r].delivery.event.status # "active" )
            => \A w \in hook[r].written :
                    /\ w.row.status = "CANCELLED"
                    /\ w.row.endDate # NullDate
                    /\ w.row.endDate = Date(hook[r].at)

\* C8: a verified customer.subscription.deleted event whose subscription ID matched
\* no Membership, and whose store operation did not fail, is acknowledged
\* with {received:true} and has created or changed no row.
C8_UnknownSubscriptionIsNoOp ==
    \A r \in Reqs :
        ( /\ Processed(r) /\ hook[r].delivery.event.type = "customer.subscription.deleted"
          /\ hook[r].error = "none" /\ hook[r].matched = {} )
            => /\ hook[r].status = 200 /\ hook[r].body = "received"
               /\ hook[r].written = {}

\* C8 happens: the event for sub_2 was acknowledged while the only
\* Membership is the one of sub_1, still ACTIVE.
C8_Witness ==
    \E r \in Reqs :
        /\ Done(r) /\ hook[r].delivery.event.type = "customer.subscription.deleted"
        /\ hook[r].delivery.event.id = "sub_2"
        /\ hook[r].status = 200 /\ hook[r].matched = {}
        /\ Len(memberships) = 1
        /\ memberships[1].stripeSubscriptionId = "sub_1"
        /\ memberships[1].status = "ACTIVE"

\* C9: a verified event whose type is none of the five recognized ones is
\* acknowledged with {received:true}, is never answered as an error, and has
\* written no row.
C9_UnrecognizedTypeAcknowledged ==
    \A r \in Reqs :
        ( /\ hook[r].pc # "idle" /\ Verified(r) /\ hook[r].delivery.sig = "valid"
          /\ hook[r].delivery.event.type \notin RecognizedTypes )
            => /\ Done(r)
               /\ hook[r].status = 200 /\ hook[r].body = "received"
               /\ hook[r].error = "none"
               /\ hook[r].written = {}

\* C9 happens: a payment_intent.payment_failed event, declared in
\* STRIPE_WEBHOOK_EVENTS but without a case, was acknowledged while the
\* Payment table has a row.
C9_Witness ==
    \E r \in Reqs :
        /\ Done(r) /\ Verified(r) /\ hook[r].delivery.sig = "valid"
        /\ hook[r].delivery.event.type = "payment_intent.payment_failed"
        /\ hook[r].status = 200
        /\ Len(payments) > 0

\* C10: a request whose handler threw while applying its transition is
\* answered 500 and not {received:true}, and nothing it wrote is kept.
C10_FailureNotAcknowledged ==
    \A r \in Reqs :
        (Done(r) /\ hook[r].error # "none")
            => /\ hook[r].status = 500
               /\ hook[r].body # "received"
               /\ hook[r].written = {}

\* C10 happens: the store was unreachable for a payment_intent.succeeded
\* event of a known user; it was answered 500 and there is no Payment row.
C10_Witness ==
    \E r \in Reqs :
        /\ Done(r) /\ hook[r].error = "unavailable"
        /\ hook[r].delivery.event.type = "payment_intent.succeeded"
        /\ hook[r].delivery.event.userId = "u1"
        /\ hook[r].status = 500
        /\ payments = << >>

\* C11: a verified payment_intent.succeeded or customer.subscription.created
\* event without metadata.userId ends as a processing error (500, not
\* {received:true}) and writes nothing, and no Payment or Membership row in
\* the store is without an owner.
C11_MissingOwnerIsError ==
    /\ \A r \in Reqs :
          ( /\ Processed(r)
            /\ hook[r].delivery.event.type \in
                  {"payment_intent.succeeded", "customer.subscription.created"}
            /\ hook[r].delivery.event.userId = NULL )
              => /\ hook[r].status = 500
                 /\ hook[r].body # "received"
                 /\ hook[r].error # "none"
                 /\ hook[r].written = {}
    /\ \A i \in 1..Len(payments) : payments[i].userId # NULL
    /\ \A i \in 1..Len(memberships) : memberships[i].userId # NULL

\* C11 happens: a payment event and a subscription event, both without
\* userId, were refused by the store and answered 500, while the tables hold
\* the rows of events that had one.
C11_Witness ==
    /\ Done("r1") /\ Done("r2")
    /\ hook["r1"].delivery.event.type = "payment_intent.succeeded"
    /\ hook["r2"].delivery.event.type = "customer.subscription.created"
    /\ hook["r1"].delivery.event.userId = NULL /\ hook["r2"].delivery.event.userId = NULL
    /\ hook["r1"].error = "constraint" /\ hook["r2"].error = "constraint"
    /\ hook["r1"].status = 500 /\ hook["r2"].status = 500
    /\ Len(payments) = 1 /\ Len(memberships) = 1

\* C17: no two Membership rows share an external subscription reference,
\* whatever deliveries were processed, one after the other or at the same
\* time.
C17_MembershipReferenceUnique ==
    \A i, j \in 1..Len(memberships) :
        memberships[i].stripeSubscriptionId = memberships[j].stripeSubscriptionId => i = j

\* C17 happens: the same customer.subscription.created event was delivered
\* twice; one delivery was acknowledged, the other refused by the store, and
\* there is one Membership for the subscription next to that of another.
C17_Witness ==
    /\ Done("r1") /\ Done("r2")
    /\ hook["r1"].delivery = hook["r2"].delivery
    /\ hook["r1"].delivery.event.type = "customer.subscription.created"
    /\ hook["r1"].status = 500 /\ hook["r1"].error = "constraint"
    /\ hook["r2"].status = 200
    /\ Len(memberships) = 2
    /\ Cardinality({ i \in 1..Len(memberships) :
                       memberships[i].stripeSubscriptionId = hook["r1"].delivery.event.id }) = 1

\* C12: a payment_intent.succeeded request whose notification block has
\* ended, however it ended (user lookup failed, no device token, service
\* not configured, sent, send threw), is acknowledged with {received:true};
\* and the Payment row is in the table before the acknowledgment: already
\* while the request is in its notification block, and when it is answered.
C12_AcknowledgedAfterWrite ==
    \A r \in Reqs :
        LET e == hook[r].delivery.event
        IN  /\ (Done(r) /\ hook[r].notification # "none")
                  => hook[r].status = 200 /\ hook[r].body = "received"
            /\ ( /\ e.type = "payment_intent.succeeded"
                 /\ \/ hook[r].pc = "notify"
                    \/ Done(r) /\ hook[r].status = 200 )
                  => /\ hook[r].written # {}
                     /\ \A w \in hook[r].written :
                          /\ w.table = "Payment" /\ w.row.stripePaymentId = e.id
                          /\ w.id \in 1..Len(payments) /\ payments[w.id] = w.row

\* C12 happens: one request was acknowledged although its send threw, the
\* other although its user lookup failed, and both Payment rows are stored.
C12_Witness ==
    /\ Done("r1") /\ Done("r2")
    /\ hook["r1"].notification = "send_failed" /\ hook["r2"].notification = "lookup_failed"
    /\ hook["r1"].status = 200 /\ hook["r2"].status = 200
    /\ Len(payments) = 2

\* C20: whenever a payment_intent.succeeded request has sent its push
\* notification, the Notification table holds a record of type
\* PAYMENT_RECEIVED for the user of the event.
C20_SentNotificationIsRecorded ==
    \A r \in Reqs :
        (Done(r) /\ hook[r].notification = "sent")
            => \E i \in 1..Len(notifications) :
                  /\ notifications[i].userId = hook[r].delivery.event.userId
                  /\ notifications[i].type = "PAYMENT_RECEIVED"

\* C13: an answered order update with status COMPLETED that found the order
\* not COMPLETED has set completedAt to a non-null time, the time of the
\* write; one that found the order COMPLETED has left completedAt as it
\* was.
C13_CompletedAtOnCompletion ==
    \A c \in Clients :
        ( /\ api[c].pc = "done" /\ api[c].op = "order.update" /\ api[c].status = 200
          /\ api[c].input = "COMPLETED" )
            => /\ api[c].after.status = "COMPLETED"
               /\ api[c].existing.status # "COMPLETED"
                    => /\ api[c].after.completedAt # NullDate
                       /\ api[c].after.completedAt = Date(api[c].at)
               /\ api[c].existing.status = "COMPLETED"
                    => api[c].after.completedAt = api[c].before.completedAt

\* C13 happens: the order was completed at time 1, and a second update with
\* status COMPLETED, made at time 2, has been answered.
C13_Witness ==
    \E c \in Clients :
        /\ api[c].pc = "done" /\ api[c].op = "order.update" /\ api[c].status = 200
        /\ api[c].input = "COMPLETED"
        /\ api[c].existing.status = "COMPLETED"
        /\ api[c].at = 2
        /\ orders["o1"].completedAt = Date(1)

\* C14: once completedAt of an order is non-null, no step changes it.
C14_CompletedAtAssignedOnce ==
    [][ \A o \in OrderIds :
          orders[o].completedAt # NullDate
              => orders'[o].completedAt = orders[o].completedAt ]_vars

\* The place of a status in DRAFT -> SENT -> PAID.
InvoiceStatusRank(status) ==
    CASE status = "DRAFT" -> 1 [] status = "SENT" -> 2 [] status = "PAID" -> 3 [] OTHER -> 4

C16_PaidOnlyByReconciler ==
    [][ \A i \in 1..Len(invoices') :
          ( /\ invoices'[i].status = "PAID"
            /\ (i > Len(invoices) \/ invoices[i].status # "PAID") )
              => /\ \E r \in Reqs :
                      /\ hook[r].pc = "handler" /\ hook'[r].pc = "done"
                      /\ hook'[r].status = 200
                      /\ hook[r].delivery.event.type = "invoice.payment_succeeded"
                 /\ cli' = cli /\ api' = api
      ]_vars

\* C16 happens: the reconciler has made the first invoice PAID, create-invoice
\* has made a second invoice and send-invoice has set that one to SENT.
C16_Witness ==
    /\ Len(invoices) >= 2
    /\ invoices[1].status = "PAID"
    /\ invoices[2].status = "SENT"
    /\ api["c1"].pc = "done" /\ api["c1"].op = "invoice.send" /\ api["c1"].status = 200

\* C18: a client request answered 400 for its validation errors, or 403 by
\* the ownership or role check, has issued no store operation, read or
\* write.
C18_RefusedBeforeStore ==
    \A c \in Clients :
        ( /\ api[c].pc = "done"
          /\ \/ api[c].status = 400 /\ api[c].message = "errors"
             \/ api[c].status = 403 )
            => api[c].storeOps = 0

\* C19: a list request that is answered with a page has a page of at least
\* 1 and a limit between 1 and 100, so its skip is not negative and its
\* number of pages is not negative.
C19_PaginationInRange ==
    \A c \in Clients :
        (api[c].pc = "done" /\ api[c].op = "list" /\ api[c].status = 200)
            => /\ api[c].input.page >= 1
               /\ api[c].input.limit >= 1 /\ api[c].input.limit <= 100
               /\ api[c].input.skip >= 0
               /\ api[c].input.pages >= 0

\* The Membership rows of a subscription ID.
MembershipRowsOf(id) ==
    { i \in 1..Len(memberships) : memberships[i].stripeSubscriptionId = id }

\* C21: an acknowledged customer.subscription.updated event with status
\* "active" leaves every Membership of its subscription ID ACTIVE, and
\* every row it changed is a Membership of that subscription ID.
C21_ActiveUpdateSetsActive ==
    \A r \in Reqs :
        LET e == hook[r].delivery.event
        IN  ( /\ Done(r) /\ hook[r].status = 200
              /\ e.type = "customer.subscription.updated" /\ e.status = "active" )
                => /\ hook[r].matched = MembershipRowsOf(e.id)
                   /\ \A i \in MembershipRowsOf(e.id) : memberships[i].status = "ACTIVE"
                   /\ \A w \in hook[r].written :
                        w.table = "Membership" /\ w.row.stripeSubscriptionId = e.id

\* C21 happens: the event changed the Membership of its subscription to
\* ACTIVE while the Membership of another subscription stays CANCELLED.
C21_Witness ==
    \E r \in Reqs :
        /\ Done(r) /\ hook[r].status = 200
        /\ hook[r].delivery.event.type = "customer.subscription.updated"
        /\ hook[r].delivery.event.status = "active"
        /\ hook[r].written # {}
        /\ \E i \in 1..Len(memberships) :
              /\ memberships[i].stripeSubscriptionId # hook[r].delivery.event.id
              /\ memberships[i].status = "CANCELLED"

\* C22: an acknowledged customer.subscription.deleted event that matched a
\* Membership leaves every Membership of its subscription ID CANCELLED with
\* a non-null end timestamp, the time of processing, and every row it
\* changed is a Membership of that subscription ID: no other Membership, no
\* Payment and no Invoice.
C22_DeleteCancelsOnlyItsMembership ==
    \A r \in Reqs :
        LET e == hook[r].delivery.event
        IN  ( /\ Done(r) /\ hook[r].status = 200
              /\ e.type = "customer.subscription.deleted" /\ hook[r].matched # {} )
                => /\ hook[r].matched = MembershipRowsOf(e.id)
                   /\ \A i \in MembershipRowsOf(e.id) :
                        /\ memberships[i].status = "CANCELLED"
                        /\ memberships[i].endDate # NullDate
                        /\ memberships[i].endDate = Date(hook[r].at)
                   /\ \A w \in hook[r].written :
                        w.table = "Membership" /\ w.row.stripeSubscriptionId = e.id

\* C22 happens: the event cancelled its Membership while the store holds a
\* Payment, an Invoice and an ACTIVE Membership of another subscription.
C22_Witness ==
    \E r \in Reqs :
        /\ Done(r) /\ hook[r].status = 200
        /\ hook[r].delivery.event.type = "customer.subscription.deleted"
        /\ hook[r].written # {}
        /\ Len(payments) > 0 /\ Len(invoices) > 0
        /\ \E i \in 1..Len(memberships) :
              /\ memberships[i].stripeSubscriptionId # hook[r].delivery.event.id
              /\ memberships[i].status = "ACTIVE"

\* C23: an acknowledged recognized event has written at most one row, and
\* only in the table of its type: payment_intent.succeeded in Payment,
\* invoice.payment_succeeded in Invoice, the customer.subscription events in
\* Membership; and only a payment_intent.succeeded request has gone through
\* a notification dispatch.
C23_OneTransitionPerEvent ==
    \A r \in Reqs :
        LET e == hook[r].delivery.event
            tables == { w.table : w \in hook[r].written }
        IN  (Done(r) /\ hook[r].status = 200 /\ e.type \in RecognizedTypes)
                => /\ Cardinality(hook[r].written) <= 1
                   /\ e.type = "payment_intent.succeeded" => tables = {"Payment"}
                   /\ e.type = "invoice.payment_succeeded" => tables \subseteq {"Invoice"}
                   /\ e.type \in { "customer.subscription.created",
                                    "customer.subscription.updated",
                                    "customer.subscription.deleted" }
                        => tables \subseteq {"Membership"}
                   /\ hook[r].notification # "none" => e.type = "payment_intent.succeeded"

\* C23 happens: a payment_intent.succeeded event for an order was
\* acknowledged after its notification was sent, while the store holds an
\* Invoice of that order, still a DRAFT, and a Membership.
C23_Witness ==
    \E r \in Reqs :
        /\ Done(r) /\ hook[r].status = 200
        /\ hook[r].delivery.event.type = "payment_intent.succeeded"
        /\ hook[r].notification = "sent"
        /\ Len(memberships) > 0
        /\ \E i \in 1..Len(invoices) :
              /\ invoices[i].orderId = hook[r].delivery.event.orderId
              /\ invoices[i].status = "DRAFT"

\* C29: a Membership that a customer.subscription.deleted event has set to
\* CANCELLED stays CANCELLED and keeps an end timestamp in every later
\* step.  (Under SpecLateUpdate a CANCELLED Membership was cancelled by
\* such an event: there is no other cancellation.)
C29_CancelledStaysCancelled ==
    [][ \A i \in 1..Len(memberships) :
          memberships[i].status = "CANCELLED"
              => /\ memberships'[i].status = "CANCELLED"
                 /\ memberships'[i].endDate # NullDate ]_vars

\* C24: in every step of cancel-subscription, a Membership changes only by
\* the write of a request whose processor cancel succeeded and whose token
\* subject owns that Membership, and it becomes CANCELLED with the time of
\* the write as end timestamp while the request is answered 200; a step that
\* answers 400, 404 or 500 leaves every Membership as it was.
C24_CancelOnlyOwnAfterProcessor ==
    [][ /\ \A i \in 1..Len(memberships) :
             memberships'[i] # memberships[i]
                 => \E c \in Clients :
                      /\ api[c].op = "stripe.cancel" /\ api[c].pc = "write"
                      /\ api[c].existing.id = i
                      /\ memberships[i].userId = api[c].user
                      /\ memberships[i].stripeSubscriptionId = api[c].target
                      /\ memberships'[i].status = "CANCELLED"
                      /\ memberships'[i].endDate = Date(now)
                      /\ memberships'[i].endDate # NullDate
                      /\ api'[c].pc = "done" /\ api'[c].status = 200
        /\ \A c \in Clients :
             ( /\ api[c].pc # "done" /\ api'[c].pc = "done"
               /\ api'[c].op = "stripe.cancel" /\ api'[c].status # 200 )
                 => /\ api'[c].status \in {400, 404, 500}
                    /\ memberships' = memberships ]_vars

\* C24 happens: a user's request cancelled their own Membership and was
\* answered 200, while the request of the other user for the same
\* subscription ID was answered 404.
C24_Witness ==
    \E c, k \in Clients :
        /\ api[c].pc = "done" /\ api[c].op = "stripe.cancel" /\ api[c].status = 200
        /\ memberships[api[c].existing.id].status = "CANCELLED"
        /\ memberships[api[c].existing.id].userId = api[c].user
        /\ api[k].pc = "done" /\ api[k].op = "stripe.cancel" /\ api[k].status = 404
        /\ api[k].target = api[c].target /\ api[k].user # api[c].user

\* C25: no step removes an order that is IN_PROGRESS, in any interleaving
\* of deletes with updates.
C25_InProgressNeverRemoved ==
    [][ \A o \in DOMAIN orders :
          orders[o].status = "IN_PROGRESS" => o \in DOMAIN orders' ]_vars

OrderOps == {"order.get", "order.update", "order.delete"}

\* C30: a get, update or delete of an order by a user who is not its owner
\* is answered at once, with 404 (an update whose body fails validation
\* with 400, before any lookup), and leaves the orders as they are; and
\* whenever an order changes or is removed, it is by the write of a request
\* of its owner for that order.
C30_OrderIsolation ==
    [][ /\ \A c \in Clients :
             ( /\ api[c].pc = "idle" /\ api'[c].pc # "idle"
               /\ api'[c].op \in OrderOps
               /\ api'[c].target \in DOMAIN orders
               /\ orders[api'[c].target].userId # api'[c].user )
                 => /\ api'[c].pc = "done"
                    /\ \/ api'[c].status = 404
                       \/ /\ api'[c].op = "order.update"
                          /\ api'[c].status = 400 /\ api'[c].storeOps = 0
                    /\ orders' = orders
        /\ \A o \in DOMAIN orders :
             (o \notin DOMAIN orders' \/ orders'[o] # orders[o])
                 => \E c \in Clients :
                      /\ api[c].pc = "lookup" /\ api[c].op \in OrderOps
                      /\ api[c].target = o
                      /\ api[c].user = orders[o].userId ]_vars

\* C30 happens: a delete and an update of an order by the user who does not
\* own it were both answered 404 and the order is in the store as it was
\* created.
C30_Witness ==
    \E c, k \in Clients :
        /\ api[c].pc = "done" /\ api[c].op = "order.delete" /\ api[c].status = 404
        /\ api[k].pc = "done" /\ api[k].op = "order.update" /\ api[k].status = 404
        /\ api[c].target = api[k].target
        /\ api[c].target \in DOMAIN orders
        /\ orders[api[c].target].userId \notin {api[c].user, api[k].user}
        /\ orders[api[c].target].status = "PENDING"

\* C26: a request to GET /api/users/:id/public or to GET /api/posts that
\* carries no valid bearer token is served: it is not answered 401.
C26_PublicRoutesNeedNoToken ==
    \A c \in Clients :
        ( /\ api[c].pc = "done" /\ api[c].op \in {"users.public", "posts.list"}
          /\ api[c].user = NULL )
            => api[c].status # 401

C28_DeactivatedOwnsNoActiveOrder ==
    \A u \in DOMAIN users :
        ~users[u].isActive
            => \A o \in DOMAIN orders :
                 orders[o].userId = u => orders[o].status \notin {"PENDING", "IN_PROGRESS"}

====
